---- MODULE Spec2Model ----
(***************************************************************************)
(* Rex-C, the compact encoding of Rex bytecode (src/encoding.md).          *)
(*                                                                         *)
(* A buffer is a sequence of bytes.  An ASCII byte is the one-character    *)
(* string of that character; a byte of a multi-byte UTF-8 character is     *)
(* written "xHH".  A character of a string value is either an ASCII        *)
(* character or a code point written "U+HHHH"; Utf8 converts between the   *)
(* two.  The backslash byte is written "x5C".  Offsets into a buffer are   *)
(* 0-based byte offsets, as in the format.                                 *)
(***************************************************************************)
EXTENDS Integers, Sequences, FiniteSets, TLC

(***************************************************************************)
(* Digit alphabet and digit codec                                          *)
(***************************************************************************)
Alphabet ==
  << "0","1","2","3","4","5","6","7","8","9",
     "a","b","c","d","e","f","g","h","i","j","k","l","m",
     "n","o","p","q","r","s","t","u","v","w","x","y","z",
     "A","B","C","D","E","F","G","H","I","J","K","L","M",
     "N","O","P","Q","R","S","T","U","V","W","X","Y","Z",
     "-","_" >>

DIGIT_SET == { Alphabet[i] : i \in 1..64 }

\* Tags that can start a value, and the closing delimiters.
VALUE_TAGS == { "+","*",":","%","@","$","^","~","=","(","[","{",",","?","!","|","&" }

Closers == { ")", "]", "}" }

IndexMarker == "#"

DigitTable == [ c \in DIGIT_SET |-> (CHOOSE i \in 0..63 : Alphabet[i + 1] = c) ]

\* digitValue: the value of an alphabet character, -1 for any other byte.
digitValue(c) == IF c \in DIGIT_SET THEN DigitTable[c] ELSE -1

RECURSIVE encode_digits_zero(_)
\* A digit run that writes zero as the digit 0.
encode_digits_zero(n) ==
  IF n < 64 THEN << Alphabet[n + 1] >>
  ELSE Append(encode_digits_zero(n \div 64), Alphabet[(n % 64) + 1])

RECURSIVE encode_digits(_)
\* Big-endian base 64, most significant digit first; zero is no digits.
encode_digits(n) ==
  IF n = 0 THEN << >>
  ELSE Append(encode_digits(n \div 64), Alphabet[(n % 64) + 1])

RECURSIVE decodePrefixReversed(_, _, _)
\* A fold that takes the first digit as the least significant one.
decodePrefixReversed(text, start, end) ==
  IF end <= start THEN 0
  ELSE digitValue(text[start + 1]) + 64 * decodePrefixReversed(text, start + 1, end)

RECURSIVE decodePrefix(_, _, _)
\* The left fold v = v*64 + digitValue(c) over text[start..end), 0-based.
decodePrefix(text, start, end) ==
  IF end <= start THEN 0
  ELSE decodePrefix(text, start, end - 1) * 64 + digitValue(text[end])

decode_digits(s) == decodePrefix(s, 0, Len(s))

RECURSIVE fixed_digits_blank(_, _)
\* A digit run of w characters padded with blanks.
fixed_digits_blank(n, w) ==
  IF w = 0 THEN << >>
  ELSE IF n = 0 THEN Append(fixed_digits_blank(0, w - 1), " ")
  ELSE Append(fixed_digits_blank(n \div 64, w - 1), Alphabet[(n % 64) + 1])

\* A digit run of exactly w digits (index entries), padded with the digit 0.
RECURSIVE fixed_digits(_, _)
fixed_digits(n, w) ==
  IF w = 0 THEN << >>
  ELSE Append(fixed_digits(n \div 64, w - 1), Alphabet[(n % 64) + 1])

\* A zigzag that maps -n and n to the same code.
\* A zigzag that shifts negative numbers one place too far.
zzShifted(n) == IF n >= 0 THEN 2 * n ELSE -2 * n + 1

zzUnsigned(n) == IF n >= 0 THEN 2 * n ELSE -2 * n

zz(n) == IF n >= 0 THEN 2 * n ELSE -2 * n - 1

\* An inverse that drops the sign bit.
unzzHalved(z) == z \div 2

unzz(z) == IF z % 2 = 0 THEN z \div 2 ELSE -((z + 1) \div 2)

(***************************************************************************)
(* Characters and UTF-8                                                    *)
(***************************************************************************)
\* Code points outside ASCII that the model's strings use, with their bytes.
WideChars == { "U+00E9", "U+2500" }

Utf8Of(c) ==
  CASE c = "U+00E9" -> << "xC3", "xA9" >>
    [] c = "U+2500" -> << "xE2", "x94", "x80" >>
    [] OTHER -> << c >>

RECURSIVE Utf8(_)
\* The UTF-8 bytes of a sequence of characters.
Utf8(s) ==
  IF s = << >> THEN << >>
  ELSE IF Len(s) = 1 THEN Utf8Of(s[1])
  ELSE Utf8(SubSeq(s, 1, Len(s) \div 2)) \o Utf8(SubSeq(s, Len(s) \div 2 + 1, Len(s)))

\* Number of bytes of the character whose first byte is b.
Utf8Width(b) ==
  CASE b = "xC3" -> 2
    [] b = "xE2" -> 3
    [] OTHER -> 1

\* The bytes that follow the first byte of a multi-byte character.
ContinuationBytes ==
  UNION { { Utf8Of(c)[i] : i \in 2..Len(Utf8Of(c)) } : c \in WideChars }

\* The offsets at which bs can be cut without cutting a character: the byte
\* after the cut is no continuation byte.
Cuts(bs) == { h \in 1..(Len(bs) - 1) : bs[h + 1] \notin ContinuationBytes }

\* The cut of bs nearest to its middle.
MiddleCut(bs) ==
  CHOOSE h \in Cuts(bs) :
    \A g \in Cuts(bs) :
      (IF 2 * h >= Len(bs) THEN 2 * h - Len(bs) ELSE Len(bs) - 2 * h)
        <= (IF 2 * g >= Len(bs) THEN 2 * g - Len(bs) ELSE Len(bs) - 2 * g)

RECURSIVE Utf8Decode(_)
\* The characters of a sequence of UTF-8 bytes (inverse of Utf8); a long
\* sequence is decoded in two halves, cut between two characters.
Utf8Decode(bs) ==
  IF bs = << >> THEN << >>
  ELSE IF Len(bs) > 3 /\ Cuts(bs) # { }
  THEN Utf8Decode(SubSeq(bs, 1, MiddleCut(bs)))
         \o Utf8Decode(SubSeq(bs, MiddleCut(bs) + 1, Len(bs)))
  ELSE LET w == Utf8Width(Head(bs))
           k == IF w <= Len(bs) THEN w ELSE Len(bs)
           unit == SubSeq(bs, 1, k)
           ch == IF \E c \in WideChars : Utf8Of(c) = unit
                 THEN CHOOSE c \in WideChars : Utf8Of(c) = unit
                 ELSE Head(bs)
           used == IF \E c \in WideChars : Utf8Of(c) = unit THEN k ELSE 1
       IN << ch >> \o Utf8Decode(SubSeq(bs, used + 1, Len(bs)))

(***************************************************************************)
(* Value model                                                             *)
(*   t: variant, n: integer / significand / id, p: decimal power,          *)
(*   s: characters of a string or name, c: children (an object's children  *)
(*   are key, value, key, value, ...).                                     *)
(***************************************************************************)
Val(t, n, p, s, c) == [ t |-> t, n |-> n, p |-> p, s |-> s, c |-> c ]

Integer(n)      == Val("Integer", n, 0, << >>, << >>)
Decimal(p, n)   == Val("Decimal", n, p, << >>, << >>)
BareString(s)   == Val("BareString", 0, 0, s, << >>)
RawString(s)    == Val("RawString", 0, 0, s, << >>)
Opcode(n)       == Val("Opcode", n, 0, << >>, << >>)
Reference(n)    == Val("Reference", n, 0, << >>, << >>)
Variable(s)     == Val("Variable", 0, 0, s, << >>)
Container(t, c) == Val(t, 0, 0, << >>, c)

ContainerKinds ==
  { "Array", "Object", "Call", "Set", "Delete", "When", "Unless", "Alt", "All" }

IsContainer(x) == x.t \in ContainerKinds

\* Opening and closing bytes of each container kind.
Opener(t) ==
  CASE t = "Array"  -> << "[" >>
    [] t = "Object" -> << "{" >>
    [] t = "Call"   -> << "(" >>
    [] t = "Set"    -> << "=" >>
    [] t = "Delete" -> << "~" >>
    [] t = "When"   -> << "?", "(" >>
    [] t = "Unless" -> << "!", "(" >>
    [] t = "Alt"    -> << "|", "(" >>
    [] t = "All"    -> << "&", "(" >>

Closer(t) ==
  CASE t = "Array"  -> << "]" >>
    [] t = "Object" -> << "}" >>
    [] t \in { "Set", "Delete" } -> << >>
    [] OTHER -> << ")" >>

(***************************************************************************)
(* Byte order (for the sorted object index)                                *)
(***************************************************************************)
\* The printable ASCII bytes in increasing code order, 32 (space) first.
PrintableAscii ==
  <<
     " ", "!", "\"", "#", "$", "%", "&", "'", "(", ")", "*", "+",
     ",", "-", ".", "/", "0", "1", "2", "3", "4", "5", "6", "7",
     "8", "9", ":", ";", "<", "=", ">", "?", "@", "A", "B", "C",
     "D", "E", "F", "G", "H", "I", "J", "K", "L", "M", "N", "O",
     "P", "Q", "R", "S", "T", "U", "V", "W", "X", "Y", "Z", "[",
     "x5C", "]", "^", "_", "x60", "a", "b", "c", "d", "e", "f", "g",
     "h", "i", "j", "k", "l", "m", "n", "o", "p", "q", "r", "s",
     "t", "u", "v", "w", "x", "y", "z", "{", "|", "}", "~"
  >>

HighBytes == { "x80", "x94", "xA9", "xC3", "xE2" }

AsciiTable ==
  [ b \in { PrintableAscii[i] : i \in 1..95 } |->
      31 + (CHOOSE i \in 1..95 : PrintableAscii[i] = b) ]

\* The numeric value of a byte.
ByteCode(b) ==
  CASE b = "\n"  -> 10
    [] b = "x80" -> 128
    [] b = "x94" -> 148
    [] b = "xA9" -> 169
    [] b = "xC3" -> 195
    [] b = "xE2" -> 226
    [] OTHER -> AsciiTable[b]

RECURSIVE BytesLess(_, _)
\* Lexicographic order over raw bytes: a sorts strictly before b.
BytesLess(a, b) ==
  IF b = << >> THEN FALSE
  ELSE IF a = << >> THEN TRUE
  ELSE IF ByteCode(Head(a)) # ByteCode(Head(b))
       THEN ByteCode(Head(a)) < ByteCode(Head(b))
  ELSE BytesLess(Tail(a), Tail(b))

(***************************************************************************)
(* Encoder: scalars                                                        *)
(***************************************************************************)
\* A length counted in characters, not in bytes.
ByteLengthInChars(bytes) == Len(Utf8Decode(bytes))

\* The byte length of a body: the number of UTF-8 bytes.
ByteLength(bytes) == Len(bytes)

IntegerBytes(n) == encode_digits(zz(n)) \o << "+" >>

\* <zigzag power>* followed by the significand as an integer token.
DecimalBytes(p, n) == encode_digits(zz(p)) \o << "*" >> \o IntegerBytes(n)

\* <byte length>, followed by the raw UTF-8 bytes; no closer.
RawStringBytes(s) ==
  LET body == Utf8(s)
  IN encode_digits(ByteLength(body)) \o << "," >> \o body

ScalarBytes(x) ==
  CASE x.t = "Integer"    -> IntegerBytes(x.n)
    [] x.t = "Decimal"    -> DecimalBytes(x.p, x.n)
    [] x.t = "BareString" -> x.s \o << ":" >>
    [] x.t = "RawString"  -> RawStringBytes(x.s)
    [] x.t = "Opcode"     -> encode_digits(x.n) \o << "%" >>
    [] x.t = "Reference"  -> encode_digits(x.n) \o << "@" >>
    [] x.t = "Variable"   -> x.s \o << "$" >>

\* A pointer token: the forward byte offset, counted from the end of the token.
PointerBytes(offset) == encode_digits(offset) \o << "^" >>

(***************************************************************************)
(* Encoder: skip-prefix policy                                             *)
(***************************************************************************)
\* Skip positions that ignore whether the parent carries an index.
SkipPositionIgnoringIndex(t, indexed, i) ==
  CASE t = "Array"  -> TRUE
    [] t = "Object" -> i % 2 = 0
    [] t \in { "When", "Unless" } -> i >= 2
    [] t \in { "Alt", "All" }     -> i >= 2
    [] OTHER -> FALSE

\* Is child number i (1-based) of a container of kind t in a skip position?
SkipPosition(t, indexed, i) ==
  CASE t = "Array"  -> ~indexed
    [] t = "Object" -> ~indexed /\ i % 2 = 0
    [] t \in { "When", "Unless" } -> i >= 2
    [] t \in { "Alt", "All" }     -> i >= 2
    [] OTHER -> FALSE

\* A length prefix that counts the closer as part of the body.
SkipPrefixWithCloser(skip, bodyLen) ==
  IF skip THEN encode_digits(bodyLen + 1) ELSE << >>

\* The length prefix of a container in a skip position; none elsewhere.
SkipPrefix(skip, bodyLen) == IF skip THEN encode_digits(bodyLen) ELSE << >>

(***************************************************************************)
(* Encoder: discovery pass                                                 *)
(***************************************************************************)
RECURSIVE Nodes(_)
RECURSIVE NodesOf(_, _)
\* Every subvalue occurrence of x, in serialization (depth-first) order.
Nodes(x) == << x >> \o NodesOf(x.c, 1)

NodesOf(kids, i) ==
  IF i > Len(kids) THEN << >> ELSE Nodes(kids[i]) \o NodesOf(kids, i + 1)

RECURSIVE PlainSize(_)
RECURSIVE PlainSizeOf(_, _)
\* The size of x written out in full, without prefixes, pointers or indexes.
PlainSize(x) ==
  IF IsContainer(x)
  THEN Len(Opener(x.t)) + PlainSizeOf(x.c, 1) + Len(Closer(x.t))
  ELSE Len(ScalarBytes(x))

PlainSizeOf(kids, i) ==
  IF i > Len(kids) THEN 0 ELSE PlainSize(kids[i]) + PlainSizeOf(kids, i + 1)

\* dedupMin is the encoder's policy: the smallest literal, in bytes, worth
\* replacing by a pointer; 0 turns deduplication off.
Worthwhile(x, dedupMin) == dedupMin > 0 /\ PlainSize(x) >= dedupMin

\* The dedup candidates: worthwhile subvalues that occur more than once.
Candidates(root, dedupMin) ==
  LET ns == Nodes(root)
  IN { x \in { ns[i] : i \in DOMAIN ns } :
         /\ Worthwhile(x, dedupMin)
         /\ \E i, j \in DOMAIN ns : i < j /\ ns[i] = x /\ ns[j] = x }

(***************************************************************************)
(* Encoder: indexes                                                        *)
(***************************************************************************)
\* Number of items of an array, or of pairs of an object.
ItemCount(x) == IF x.t = "Object" THEN Len(x.c) \div 2 ELSE Len(x.c)

\* indexMin is the encoder's policy: containers with at least indexMin items
\* carry an index; 0 turns indexing off.
Indexed(x, indexMin) ==
  /\ x.t \in { "Array", "Object" }
  /\ indexMin > 0
  /\ ItemCount(x) >= indexMin

\* Entries of one digit, whatever the offsets.
IndexWidthOne(maxOffset) == 1

\* The least entry width whose range covers the offset.
IndexWidth(maxOffset) ==
  IF maxOffset < 64 THEN 1 ELSE IF maxOffset < 4096 THEN 2 ELSE 3

\* The bytes an object index sorts a key by: the key's string content.
KeyBytes(k) ==
  IF k.t \in { "BareString", "RawString", "Variable" } THEN Utf8(k.s)
  ELSE ScalarBytes(k)

\* Entries left in storage order.
EntryBeforeStored(a, b) == a.o < b.o

\* Entry a sorts before entry b (by key bytes, then by storage offset).
EntryBefore(a, b) ==
  \/ BytesLess(a.k, b.k)
  \/ a.k = b.k /\ a.o < b.o

RECURSIVE InsertEntry(_, _)
InsertEntry(sorted, e) ==
  IF sorted = << >> THEN << e >>
  ELSE IF EntryBefore(e, Head(sorted)) THEN << e >> \o sorted
  ELSE << Head(sorted) >> \o InsertEntry(Tail(sorted), e)

RECURSIVE SortEntries(_)
SortEntries(es) ==
  IF es = << >> THEN << >>
  ELSE InsertEntry(SortEntries(SubSeq(es, 1, Len(es) - 1)), es[Len(es)])

\* The entry offsets of x's index: offs[i] is the offset of child i within
\* the element data; arrays list every element, objects every key, sorted.
IndexEntries(x, offs) ==
  IF x.t = "Array" THEN offs
  ELSE LET es == SortEntries([ j \in 1..ItemCount(x) |->
                  [ k |-> KeyBytes(x.c[2 * j - 1]), o |-> offs[2 * j - 1] ] ])
       IN [ j \in 1..Len(es) |-> es[j].o ]

RECURSIVE EntryDigits(_, _)
EntryDigits(entries, w) ==
  IF entries = << >> THEN << >>
  ELSE fixed_digits(Head(entries), w) \o EntryDigits(Tail(entries), w)

MaxOf(seq) == CHOOSE m \in { seq[i] : i \in DOMAIN seq } :
                \A i \in DOMAIN seq : seq[i] <= m

\* A header that stores the width 1-biased, as the value w - 1.
IndexBytesBiased(x, offs) ==
  LET entries == IndexEntries(x, offs)
      w == IndexWidth(MaxOf(entries))
  IN encode_digits(ItemCount(x)) \o << IndexMarker, Alphabet[w] >>
       \o EntryDigits(entries, w)

\* <count>#<width> followed by count entries of width digits each.
IndexBytes(x, offs) ==
  LET entries == IndexEntries(x, offs)
      w == IndexWidth(MaxOf(entries))
  IN encode_digits(ItemCount(x)) \o << IndexMarker, Alphabet[w + 1] >>
       \o EntryDigits(entries, w)

(***************************************************************************)
(* Encoder: emission.  The layout is computed from the end of the buffer   *)
(* towards its start, so that the canonical occurrence of a candidate (its *)
(* last occurrence in serialization order) is placed before any pointer to *)
(* it is sized: every pointer's digit field and every length prefix then   *)
(* has its final value, which is what the backpatch pass leaves behind.    *)
(*   st.out   the bytes laid out so far (a suffix of the output)           *)
(*   st.seen  for each candidate, the distance from the end of the buffer  *)
(*            to the first byte of its canonical token, -1 before that     *)
(***************************************************************************)
RECURSIVE EmitValue(_, _, _, _)
RECURSIVE EmitContainer(_, _, _, _)
RECURSIVE EmitChildren(_, _, _, _, _)

\* A pointer that then stands as the value's nearest occurrence itself, so
\* that the next pointer to the same value refers to this one.
PointerToNearest(x, st) ==
  LET out == PointerBytes(Len(st.out) - st.seen[x]) \o st.out
  IN [ st EXCEPT !.out = out, !.seen[x] = Len(out) ]

\* An earlier occurrence of a candidate: a pointer to its canonical token.
\* The offset counts forward from the end of the pointer token.
PointerTo(x, st) ==
  [ st EXCEPT !.out = PointerBytes(Len(st.out) - st.seen[x]) \o @ ]

\* Pointers that land just after the canonical token.
CanonicalAtEnd(before, after) == before

\* Where pointers to a canonical token land: on its first byte.  before and
\* after are the distances from the end of the buffer to the token's end
\* and start.
CanonicalAt(before, after) == after

\* An encoder that writes every occurrence literally.
EmitValueLiterally(x, skip, st, indexMin) ==
  LET r == IF IsContainer(x) THEN EmitContainer(x, skip, st, indexMin)
           ELSE [ st EXCEPT !.out = ScalarBytes(x) \o @ ]
  IN IF x \in DOMAIN r.seen
     THEN [ r EXCEPT !.seen[x] = CanonicalAt(Len(st.out), Len(r.out)) ]
     ELSE r

EmitValue(x, skip, st, indexMin) ==
  IF x \in DOMAIN st.seen /\ st.seen[x] >= 0
  THEN PointerTo(x, st)
  ELSE LET r == IF IsContainer(x) THEN EmitContainer(x, skip, st, indexMin)
                ELSE [ st EXCEPT !.out = ScalarBytes(x) \o @ ]
       IN IF x \in DOMAIN r.seen
          THEN [ r EXCEPT !.seen[x] = CanonicalAt(Len(st.out), Len(r.out)) ]
          ELSE r

\* Children i, i-1, ..., 1 of x; ats[j] is the distance from the end of the
\* buffer to the first byte of child j's token.
EmitChildren(x, i, indexed, st, indexMin) ==
  IF i = 0 THEN [ out |-> st.out, seen |-> st.seen, ats |-> << >> ]
  ELSE LET a == EmitValue(x.c[i], SkipPosition(x.t, indexed, i),
                          [ out |-> st.out, seen |-> st.seen ], indexMin)
           rest == EmitChildren(x, i - 1, indexed, a, indexMin)
       IN [ rest EXCEPT !.ats = Append(@, Len(a.out)) ]

EmitContainer(x, skip, st, indexMin) ==
  LET indexed == Indexed(x, indexMin)
      closed  == [ st EXCEPT !.out = Closer(x.t) \o @ ]
      kids    == EmitChildren(x, Len(x.c), indexed, closed, indexMin)
      first   == Len(kids.out)
      offs    == [ i \in 1..Len(x.c) |-> first - kids.ats[i] ]
      index   == IF indexed THEN IndexBytes(x, offs) ELSE << >>
      body    == index \o SubSeq(kids.out, 1, first - Len(closed.out))
  IN [ out  |-> SkipPrefix(skip /\ IsContainer(x), ByteLength(body))
                  \o Opener(x.t) \o index \o kids.out,
       seen |-> kids.seen ]

\* encode(v) under the policy opt = [dedupMin, indexMin]; the top-level value
\* is in no skip position.
encode(v, opt) ==
  EmitValue(v, FALSE,
            [ out  |-> << >>,
              seen |-> [ x \in Candidates(v, opt.dedupMin) |-> -1 ] ],
            opt.indexMin).out

(***************************************************************************)
(* Decoder.  A result is [err, at, v, next, toks]: err is "OK" or the name *)
(* of the decode error detected at byte offset at; v is the decoded value  *)
(* (NoValue after an error); next is the offset after the token; toks      *)
(* lists the tokens read in the main traversal, outermost first, each      *)
(*   [o      offset of the token's first byte,                             *)
(*    dl, n  length and value of its digit prefix,                         *)
(*    tag    its tag byte,                                                 *)
(*    hdr    header length: the prefix digits and the opener,              *)
(*    close  length of its closer,                                         *)
(*    end    offset after the token,                                       *)
(*    ctx    where it stands: parent kind, parent indexed, child number,   *)
(*    v      the value it decodes to (a pointer: its target's value),      *)
(*    target a pointer's resolved offset, else -1,                         *)
(*    sub    whether it is the significand of a decimal,                   *)
(*    ix     its index header, if any].                                    *)
(***************************************************************************)
NoValue == Val("NoValue", 0, 0, << >>, << >>)

\* Where a token stands: child number ci (1-based) of a container of kind pk.
Child(kind, indexed, i) == [ pk |-> kind, pix |-> indexed, ci |-> i ]

Top == Child("Top", FALSE, 0)

NoIndex == [ on |-> FALSE, cd |-> << >>, count |-> 0, w |-> 0, table |-> 0, first |-> 0 ]

Fail(e, at) ==
  [ err |-> e, at |-> at, v |-> NoValue, next |-> at, toks |-> << >> ]

Done(v, next, toks) ==
  [ err |-> "OK", at |-> next, v |-> v, next |-> next, toks |-> toks ]

Tok(o, dl, n, tag, hdr, close, end, ctx, v, target, ix) ==
  [ o |-> o, dl |-> dl, n |-> n, tag |-> tag, hdr |-> hdr, close |-> close,
    end |-> end, ctx |-> ctx, v |-> v, target |-> target, sub |-> FALSE,
    ix |-> ix ]

RECURSIVE DigitsEnd(_, _)
\* The offset of the first byte at or after pos that is no digit.
DigitsEnd(buf, pos) ==
  IF pos < Len(buf) /\ buf[pos + 1] \in DIGIT_SET
  THEN DigitsEnd(buf, pos + 1) ELSE pos

\* The kind of container an opener tag starts.
KindOfTag(tag) ==
  CASE tag = "[" -> "Array"
    [] tag = "{" -> "Object"
    [] tag = "(" -> "Call"
    [] tag = "=" -> "Set"
    [] tag = "~" -> "Delete"
    [] tag = "?" -> "When"
    [] tag = "!" -> "Unless"
    [] tag = "|" -> "Alt"
    [] tag = "&" -> "All"

\* The index header at offset p (just after [ or {), if there is one:
\* <count>#<width digit> and count * width entry digits.
ReadIndex(buf, p) ==
  LET d == DigitsEnd(buf, p)
  IN IF d < Len(buf) /\ buf[d + 1] = IndexMarker
     THEN LET count == decodePrefix(buf, p, d)
              w == IF d + 1 < Len(buf) THEN digitValue(buf[d + 2]) ELSE -1
          IN IF w < 1 THEN [ NoIndex EXCEPT !.on = TRUE, !.w = -1, !.table = d + 1 ]
             ELSE [ on |-> TRUE, cd |-> SubSeq(buf, p + 1, d), count |-> count,
                    w |-> w, table |-> d + 2, first |-> d + 2 + count * w ]
     ELSE [ NoIndex EXCEPT !.first = p ]

\* Entry j (0-based) of an index: the offset of an item within the element data.
IndexEntry(buf, ix, j) ==
  decodePrefix(buf, ix.table + j * ix.w, ix.table + (j + 1) * ix.w)

\* A decoder that takes any number of children.
ArityOkAny(kind, count) == TRUE

ArityOk(kind, count) ==
  CASE kind = "Set"    -> count = 2
    [] kind = "Delete" -> count = 1
    [] kind \in { "When", "Unless" } -> count \in { 2, 3 }
    [] kind \in { "Alt", "All" }     -> count >= 1
    [] kind = "Object" -> count % 2 = 0
    [] OTHER -> TRUE

\* A reader that follows every pointer without looking at its target.
PointerFaultNone(buf, target) == "OK"

\* What is wrong with a pointer that resolves to target: it lies at or past
\* the end of the buffer, or the token there is itself a pointer.
PointerFault(buf, target) ==
  IF target >= Len(buf) THEN "NonForwardPointer"
  ELSE IF DigitsEnd(buf, target) < Len(buf) /\ buf[DigitsEnd(buf, target) + 1] = "^"
       THEN "PointerChain"
  ELSE "OK"

RECURSIVE Parse(_, _, _)
RECURSIVE ParseItems(_, _, _, _, _, _)
RECURSIVE ParseFixed(_, _, _, _, _)

\* A reader that recovers from a child it cannot decode by ending the
\* container there and keeping the children read so far.
ParseItemsRecovering(buf, p, closer, kind, indexed, i) ==
  IF p >= Len(buf) THEN Fail("UnterminatedContainer", p)
  ELSE IF buf[p + 1] = closer THEN Done(<< >>, p, << >>)
  ELSE LET r == Parse(buf, p, Child(kind, indexed, i))
       IN IF r.err # "OK" THEN Done(<< >>, p, << >>)
          ELSE LET rest == ParseItems(buf, r.next, closer, kind, indexed, i + 1)
               IN IF rest.err # "OK" THEN rest
                  ELSE Done(<< r.v >> \o rest.v, rest.next, r.toks \o rest.toks)

\* The children of a paired container from offset p up to its closer; next is
\* the offset of the closer.
ParseItems(buf, p, closer, kind, indexed, i) ==
  IF p >= Len(buf) THEN Fail("UnterminatedContainer", p)
  ELSE IF buf[p + 1] = closer THEN Done(<< >>, p, << >>)
  ELSE LET r == Parse(buf, p, Child(kind, indexed, i))
       IN IF r.err # "OK" THEN r
          ELSE LET rest == ParseItems(buf, r.next, closer, kind, indexed, i + 1)
               IN IF rest.err # "OK" THEN rest
                  ELSE Done(<< r.v >> \o rest.v, rest.next, r.toks \o rest.toks)

\* The count children of a fixed-arity operator (no closer).
ParseFixed(buf, p, count, kind, i) ==
  IF count = 0 THEN Done(<< >>, p, << >>)
  ELSE IF p >= Len(buf) THEN Fail("TruncatedBuffer", p)
  ELSE IF buf[p + 1] \in Closers THEN Fail("ArityMismatch", p)
  ELSE LET r == Parse(buf, p, Child(kind, FALSE, i))
       IN IF r.err # "OK" THEN r
          ELSE LET rest == ParseFixed(buf, r.next, count - 1, kind, i + 1)
               IN IF rest.err # "OK" THEN rest
                  ELSE Done(<< r.v >> \o rest.v, rest.next, r.toks \o rest.toks)

\* decode(buf, offset): one value starting at offset pos.
Parse(buf, pos, ctx) ==
  LET e == DigitsEnd(buf, pos)
  IN IF e >= Len(buf) THEN Fail("TruncatedBuffer", e)
  ELSE
  LET tag == buf[e + 1]
      dl  == e - pos
      run == SubSeq(buf, pos + 1, e)
      \* The prefix of a bare string or variable is its content, not a number.
      n   == IF tag \in { ":", "$" } THEN 0 ELSE decodePrefix(buf, pos, e)
      scalar(v) ==
        Done(v, e + 1, << Tok(pos, dl, n, tag, dl + 1, 0, e + 1, ctx, v, -1, NoIndex) >>)
  IN
  CASE tag = "+" -> scalar(Integer(unzz(n)))
    [] tag = ":" -> scalar(BareString(run))
    [] tag = "$" -> scalar(Variable(run))
    [] tag = "%" -> scalar(Opcode(n))
    [] tag = "@" -> scalar(Reference(n))
    [] tag = "*" ->
         LET r == Parse(buf, e + 1, Child("Decimal", FALSE, 1))
         IN IF r.err # "OK" THEN r
            ELSE IF r.v.t # "Integer" THEN Fail("UnknownTag", e + 1)
            ELSE LET v == Decimal(unzz(n), r.v.n)
                 IN Done(v, r.next,
                      << Tok(pos, dl, n, tag, dl + 1, 0, r.next, ctx, v, -1, NoIndex),
                         [ r.toks[1] EXCEPT !.sub = TRUE ] >>)
    [] tag = "^" ->
         LET target == e + 1 + n
             fault == PointerFault(buf, target)
         IN IF fault # "OK" THEN Fail(fault, pos)
            ELSE LET r == Parse(buf, target, Top)
                 IN IF r.err # "OK" THEN r
                    ELSE Done(r.v, e + 1,
                           << Tok(pos, dl, n, tag, dl + 1, 0, e + 1, ctx, r.v,
                                  target, NoIndex) >>)
    [] tag = "," ->
         IF e + 1 + n > Len(buf) THEN Fail("TruncatedBuffer", pos)
         ELSE LET v == RawString(Utf8Decode(SubSeq(buf, e + 2, e + 1 + n)))
              IN Done(v, e + 1 + n,
                   << Tok(pos, dl, n, tag, dl + 1, 0, e + 1 + n, ctx, v, -1, NoIndex) >>)
    [] tag \in { "[", "{", "(" } ->
         LET kind == KindOfTag(tag)
             ix == IF tag = "(" THEN [ NoIndex EXCEPT !.first = e + 1 ]
                   ELSE ReadIndex(buf, e + 1)
             closer == Closer(kind)[1]
         IN IF ix.on /\ ix.w < 1 THEN Fail("InvalidDigit", ix.table)
            ELSE IF ix.first > Len(buf) THEN Fail("TruncatedBuffer", ix.table)
            ELSE LET r == ParseItems(buf, ix.first, closer, kind, ix.on, 1)
                 IN IF r.err # "OK" THEN r
                    ELSE IF ~ArityOk(kind, Len(r.v)) THEN Fail("ArityMismatch", pos)
                    ELSE LET v == Container(kind, r.v)
                         IN Done(v, r.next + 1,
                              << Tok(pos, dl, n, tag, dl + 1, 1, r.next + 1, ctx, v,
                                     -1, ix) >> \o r.toks)
    [] tag \in { "?", "!", "|", "&" } ->
         IF ~(e + 1 < Len(buf) /\ buf[e + 2] = "(") THEN Fail("UnknownTag", e)
         ELSE LET kind == KindOfTag(tag)
                  r == ParseItems(buf, e + 2, ")", kind, FALSE, 1)
              IN IF r.err # "OK" THEN r
                 ELSE IF ~ArityOk(kind, Len(r.v)) THEN Fail("ArityMismatch", pos)
                 ELSE LET v == Container(kind, r.v)
                      IN Done(v, r.next + 1,
                           << Tok(pos, dl, n, tag, dl + 2, 1, r.next + 1, ctx, v,
                                  -1, NoIndex) >> \o r.toks)
    [] tag \in { "=", "~" } ->
         LET kind == KindOfTag(tag)
             r == ParseFixed(buf, e + 1, IF tag = "=" THEN 2 ELSE 1, kind, 1)
         IN IF r.err # "OK" THEN r
            \* A declared body that holds fewer or more than the children.
            ELSE IF dl > 0 /\ r.next # e + 1 + n THEN Fail("ArityMismatch", pos)
            ELSE LET v == Container(kind, r.v)
                 IN Done(v, r.next,
                      << Tok(pos, dl, n, tag, dl + 1, 0, r.next, ctx, v, -1,
                             NoIndex) >> \o r.toks)
    [] OTHER -> Fail("UnknownTag", e)

\* decode(buf): the value the whole buffer encodes.
decode(buf) ==
  LET r == Parse(buf, 0, Top)
  IN IF r.err = "OK" /\ r.next # Len(buf) THEN Fail("UnknownTag", r.next) ELSE r

(***************************************************************************)
(* Random access: get(buf, path)                                           *)
(* A path step is [key |-> FALSE, i |-> index, k |-> NoValue] for a child  *)
(* index (0-based) or [key |-> TRUE, i |-> 0, k |-> key value] for an      *)
(* object key.                                                             *)
(***************************************************************************)
IndexStep(i) == [ key |-> FALSE, i |-> i, k |-> NoValue ]

KeyStep(k) == [ key |-> TRUE, i |-> 0, k |-> k ]

\* The offset of the token a pointer at pos refers to; pos itself otherwise.
\* A reader that takes a pointer token for the value itself.
ResolveInPlace(buf, pos) == pos

Resolve(buf, pos) ==
  LET e == DigitsEnd(buf, pos)
  IN IF e < Len(buf) /\ buf[e + 1] = "^"
     THEN e + 1 + decodePrefix(buf, pos, e) ELSE pos

\* Length of the opener that starts at the tag byte, and of its closer.
OpenerLen(tag) == IF tag \in { "?", "!", "|", "&" } THEN 2 ELSE 1

CloserLen(tag) == IF tag \in { "=", "~", "," } THEN 0 ELSE 1

\* What one step of a random access hands back: the offset pos it landed
\* on, or the error e detected at offset at.
Step(e, at, pos) == [ err |-> e, at |-> at, pos |-> pos ]

Landed(pos) == Step("OK", pos, pos)

Missing(at) == Step("NoSuchPath", at, -1)

\* The pointer token at pos, followed to its target with the decoder's
\* checks; pos itself when the token is no pointer.
ResolveAt(buf, pos) ==
  LET e == DigitsEnd(buf, pos)
  IN IF e >= Len(buf) THEN Step("TruncatedBuffer", e, -1)
     ELSE IF buf[e + 1] # "^" THEN Landed(pos)
     ELSE LET fault == PointerFault(buf, e + 1 + decodePrefix(buf, pos, e))
          IN IF fault # "OK" THEN Step(fault, pos, -1)
             ELSE Landed(Resolve(buf, pos))

\* A token the decoder has read through: the offset after it, or its
\* error.
ScannedTo(r) == IF r.err # "OK" THEN Step(r.err, r.at, -1) ELSE Landed(r.next)

RECURSIVE SkipAt(_, _)
\* The offset of the token after the one at pos, without decoding it: a
\* length prefix is followed, an un-prefixed container is scanned.
SkipAt(buf, pos) ==
  LET e == DigitsEnd(buf, pos)
  IN IF e >= Len(buf) THEN Step("TruncatedBuffer", e, -1)
     ELSE
     LET tag == buf[e + 1]
         end == e + OpenerLen(tag) + decodePrefix(buf, pos, e) + CloserLen(tag)
     IN CASE tag \in { "+", ":", "$", "%", "@", "^" } -> Landed(e + 1)
          [] tag = "*" -> SkipAt(buf, e + 1)
          [] tag = "," ->
               IF e + 1 + decodePrefix(buf, pos, e) > Len(buf)
               THEN Step("TruncatedBuffer", pos, -1)
               ELSE Landed(e + 1 + decodePrefix(buf, pos, e))
          [] tag \in { "[", "{", "(", "=", "~", "?", "!", "|", "&" } ->
               IF e > pos
               THEN IF end > Len(buf) THEN Step("TruncatedBuffer", pos, -1)
                    ELSE Landed(end)
               ELSE ScannedTo(Parse(buf, pos, Top))
          [] OTHER -> Step("UnknownTag", e, -1)

SkipValue(buf, pos) == SkipAt(buf, pos).pos

RECURSIVE NthAt(_, _, _, _)
RECURSIVE NthAfter(_, _, _, _)
\* Item number i (0-based) of the items that start at p and end at closer
\* (the operators without closer pass none).
NthAt(buf, p, i, closer) ==
  IF p >= Len(buf)
  THEN Step(IF closer = "" THEN "TruncatedBuffer" ELSE "UnterminatedContainer", p, -1)
  ELSE IF buf[p + 1] = closer THEN Missing(p)
  ELSE IF i = 0 THEN Landed(p)
  ELSE NthAfter(buf, SkipAt(buf, p), i, closer)

\* The rest of the walk to item i, once the item before it is skipped (s).
NthAfter(buf, s, i, closer) ==
  IF s.err # "OK" THEN s ELSE NthAt(buf, s.pos, i - 1, closer)

RECURSIVE NthItem(_, _, _)
\* The offset of item number i (0-based) of the items that start at p.
NthItem(buf, p, i) == IF i = 0 THEN p ELSE NthItem(buf, SkipValue(buf, p), i - 1)

\* The key bytes of the key token at offset p.
KeyAt(buf, p) == KeyBytes(Parse(buf, p, Top).v)

\* The key token at offset p, decoded: pos is the offset after it.  A key
\* position must hold a scalar.
KeyTokenOf(r, p) ==
  IF r.err # "OK" THEN Step(r.err, r.at, -1)
  ELSE IF IsContainer(r.v) THEN Step("UnknownTag", p, -1)
  ELSE Landed(r.next)

KeyTokenAt(buf, p) == KeyTokenOf(Parse(buf, p, Top), p)

RECURSIVE ScanAt(_, _, _, _)
RECURSIVE ScanPair(_, _, _, _, _)
RECURSIVE ScanAfter(_, _, _, _)
\* Linear key/value scan from p: the offset of the value of the first pair
\* whose key is kb.
ScanAt(buf, p, closer, kb) ==
  IF p >= Len(buf) THEN Step("UnterminatedContainer", p, -1)
  ELSE IF buf[p + 1] = closer THEN Missing(p)
  ELSE ScanPair(buf, p, KeyTokenAt(buf, p), closer, kb)

\* The pair whose key token k starts at p: its value when the key is kb,
\* the scan of the pairs after it otherwise.
ScanPair(buf, p, k, closer, kb) ==
  IF k.err # "OK" THEN k
  ELSE IF k.pos >= Len(buf) THEN Step("UnterminatedContainer", k.pos, -1)
  ELSE IF buf[k.pos + 1] = closer THEN Step("ArityMismatch", k.pos, -1)
  ELSE IF KeyAt(buf, p) = kb THEN Landed(k.pos)
  ELSE ScanAfter(buf, SkipAt(buf, k.pos), closer, kb)

\* The scan of the pairs after a value that has been skipped (s).
ScanAfter(buf, s, closer, kb) ==
  IF s.err # "OK" THEN s ELSE ScanAt(buf, s.pos, closer, kb)

\* Linear key/value scan from p: the offset of the value of the first pair
\* whose key is kb, -1 when the closer is reached.
ScanKey(buf, p, closer, kb) ==
  LET r == ScanAt(buf, p, closer, kb) IN IF r.err = "OK" THEN r.pos ELSE -1

\* The item that entry j (0-based) of an index refers to.
EntryAt(buf, ix, j) ==
  IF \E q \in (ix.table + j * ix.w + 1)..(ix.table + (j + 1) * ix.w) :
       buf[q] \notin DIGIT_SET
  THEN Step("InvalidDigit", ix.table + j * ix.w, -1)
  ELSE IF ix.first + IndexEntry(buf, ix, j) >= Len(buf)
  THEN Step("TruncatedBuffer", ix.table + j * ix.w, -1)
  ELSE Landed(ix.first + IndexEntry(buf, ix, j))

RECURSIVE SearchAt(_, _, _, _, _)
RECURSIVE SearchEntry(_, _, _, _, _, _)
RECURSIVE SearchKeyed(_, _, _, _, _, _, _, _)
\* Binary search of the sorted index entries lo..hi for the key kb: the
\* offset of the value that follows the matching key.
SearchAt(buf, ix, lo, hi, kb) ==
  IF lo > hi THEN Missing(ix.first)
  ELSE SearchEntry(buf, ix, lo, hi, EntryAt(buf, ix, (lo + hi) \div 2), kb)

\* The probe of the middle entry, which refers to the key at p.
SearchEntry(buf, ix, lo, hi, p, kb) ==
  IF p.err # "OK" THEN p
  ELSE SearchKeyed(buf, ix, lo, hi, p.pos, KeyTokenAt(buf, p.pos),
                   KeyAt(buf, p.pos), kb)

\* The probe of the middle entry, whose key token k at offset at has the
\* bytes here.
SearchKeyed(buf, ix, lo, hi, at, k, here, kb) ==
  IF k.err # "OK" THEN k
  ELSE IF here = kb THEN SkipAt(buf, at)
  ELSE IF BytesLess(here, kb) THEN SearchAt(buf, ix, (lo + hi) \div 2 + 1, hi, kb)
  ELSE SearchAt(buf, ix, lo, (lo + hi) \div 2 - 1, kb)

\* Binary search of the sorted index entries lo..hi for the key kb: the
\* offset of the value that follows the matching key, -1 when there is none.
SearchKey(buf, ix, lo, hi, kb) ==
  LET r == SearchAt(buf, ix, lo, hi, kb) IN IF r.err = "OK" THEN r.pos ELSE -1

\* The closer that ends the children of a container tag; none for the
\* operators of fixed arity.
CloserOf(tag) ==
  CASE tag = "[" -> "]"
    [] tag = "{" -> "}"
    [] tag \in { "=", "~" } -> ""
    [] OTHER -> ")"

\* One path step from the container token at pos, with the decoder's checks
\* on everything the step reads.
GetStepAt(buf, pos, step) ==
  LET o == ResolveAt(buf, pos)
  IN IF o.err # "OK" THEN o
     ELSE
     LET e == DigitsEnd(buf, o.pos)
         tag == buf[e + 1]
         body == e + OpenerLen(tag)
         ix == IF tag \in { "[", "{" } THEN ReadIndex(buf, body)
               ELSE [ NoIndex EXCEPT !.first = body ]
     IN IF e >= Len(buf) THEN Step("TruncatedBuffer", e, -1)
        ELSE IF tag \in { "?", "!", "|", "&" } /\ ~(e + 1 < Len(buf) /\ buf[e + 2] = "(")
        THEN Step("UnknownTag", e, -1)
        ELSE IF ix.on /\ ix.w < 1 THEN Step("InvalidDigit", ix.table, -1)
        ELSE IF ix.first > Len(buf) THEN Step("TruncatedBuffer", ix.table, -1)
        ELSE IF tag = "{"
        THEN IF ~step.key THEN Missing(pos)
             ELSE IF ix.on
                  THEN SearchAt(buf, ix, 0, ix.count - 1, KeyBytes(step.k))
                  ELSE ScanAt(buf, ix.first, "}", KeyBytes(step.k))
        ELSE IF step.key \/ tag \notin { "[", "(", "=", "~", "?", "!", "|", "&" }
             THEN Missing(pos)
        ELSE IF tag = "=" /\ step.i > 1 THEN Missing(pos)
        ELSE IF tag = "~" /\ step.i > 0 THEN Missing(pos)
        ELSE IF ix.on
             THEN IF step.i < ix.count THEN EntryAt(buf, ix, step.i)
                  ELSE Missing(pos)
             ELSE NthAt(buf, ix.first, step.i, CloserOf(tag))

\* One path step from the container token at pos: the offset of the child's
\* token, -1 when the step does not apply.
GetStep(buf, pos, step) ==
  LET r == GetStepAt(buf, pos, step) IN IF r.err = "OK" THEN r.pos ELSE -1

RECURSIVE GetAt(_, _, _)
RECURSIVE GetAfter(_, _, _, _)
GetAt(buf, pos, path) ==
  IF path = << >> THEN Parse(buf, pos, Top)
  ELSE GetAfter(buf, pos, GetStepAt(buf, pos, Head(path)), Tail(path))

\* The rest of a get once the step from pos has been taken (c).
GetAfter(buf, pos, c, rest) ==
  IF c.err = "NoSuchPath" THEN Fail("NoSuchPath", pos)
  ELSE IF c.err # "OK" THEN Fail(c.err, c.at)
  ELSE GetAt(buf, c.pos, rest)

get(buf, path) == GetAt(buf, 0, path)

\* What a call hands back to its caller: the error or the value.
Outcome(r) == [ err |-> r.err, at |-> r.at, v |-> r.v ]

(***************************************************************************)
(* Navigating a decoded value along a path                                 *)
(***************************************************************************)
RECURSIVE FirstPair(_, _, _)
\* The value of the first pair (in storage order) of kids whose key is kb.
FirstPair(kids, j, kb) ==
  IF j > Len(kids) THEN NoValue
  ELSE IF KeyBytes(kids[j]) = kb THEN kids[j + 1]
  ELSE FirstPair(kids, j + 2, kb)

RECURSIVE Navigate(_, _)
Navigate(x, path) ==
  IF path = << >> THEN x
  ELSE LET step == Head(path)
       IN IF step.key THEN Navigate(FirstPair(x.c, 1, KeyBytes(step.k)), Tail(path))
          ELSE Navigate(x.c[step.i + 1], Tail(path))

\* The steps that apply to x.
StepsOf(x) ==
  IF x.t = "Object" THEN { KeyStep(x.c[2 * j - 1]) : j \in 1..(Len(x.c) \div 2) }
  ELSE IF IsContainer(x) THEN { IndexStep(i - 1) : i \in 1..Len(x.c) }
  ELSE { }

\* Every path of at most two steps that is valid in x.
PathsOf(x) ==
  { << >> } \cup { << s >> : s \in StepsOf(x) }
    \cup UNION { { << s, u >> : u \in StepsOf(Navigate(x, << s >>)) } : s \in StepsOf(x) }

(***************************************************************************)
(* Inputs                                                                  *)
(***************************************************************************)
\* Most children of a generated container.
MaxKids == 2

\* Length of the long raw string (offsets past it need two digits).
LongLen == 64

\* All sequences over S of length at most n.
RECURSIVE SeqsUpTo(_, _)
SeqsUpTo(S, n) ==
  IF n = 0 THEN { << >> }
  ELSE LET shorter == SeqsUpTo(S, n - 1)
       IN shorter \cup { Append(q, x) : q \in { r \in shorter : Len(r) = n - 1 }, x \in S }

Atoms ==
  { Integer(1), Integer(0), Integer(-2), Decimal(-2, -314),
    BareString(<< "0", "a" >>), RawString(<< "U+00E9", "]" >>),
    RawString(<< "\"", "\n" >>), Variable(<< "x" >>), Opcode(1), Reference(0) }

\* Containers whose children are scalars.
Level1 ==
  { Container(t, c) : t \in ContainerKinds, c \in SeqsUpTo(Atoms, MaxKids) }

Nested ==
  { Integer(1), BareString(<< "0", "a" >>),
    Container("Array", << >>),
    Container("Array", << Integer(1), Integer(1) >>),
    Container("Object", << BareString(<< "0", "a" >>), Integer(1) >>),
    Container("Call", << Opcode(1), Integer(1) >>),
    Container("Set", << Variable(<< "x" >>), Integer(1) >>),
    Container("When", << Integer(0), Container("Array", << Integer(1) >>) >>) }

\* Containers whose children may be containers.
Level2 ==
  { Container(t, c) : t \in ContainerKinds, c \in SeqsUpTo(Nested, MaxKids) }

LongRaw == RawString([ i \in 1..LongLen |-> "z" ])

Quote == RawString(<< "\"", "\n" >>)

Bare(str) == BareString(str)

\* Larger trees: three children, long bodies, strings with reserved bytes.
Extras ==
  { Quote,
    LongRaw,
    Reference(0),
    BareString(<< >>),
    Container("Array", << Integer(65), Integer(65), Integer(65) >>),
    Container("Array", << Integer(1), Integer(2), Integer(3) >>),
    Container("Array", << Integer(0), Decimal(-2, -314), Bare(<< "0", "a" >>) >>),
    Container("Array", << Container("Array", << Integer(1) >>),
                          Container("Set", << Variable(<< "x" >>), Integer(1) >>),
                          RawString(<< "U+00E9", "]" >>), Integer(1) >>),
    Container("When", << Container("Array", << Container("Array", << Integer(2) >>),
                                               Integer(0) >>),
                         Container("Array", << Integer(1) >>),
                         Container("Array", << Integer(1) >>) >>),
    Container("Array",
      << Container("Array", << Bare(<< "a", "b" >>), RawString(<< "U+00E9", "]" >>),
                               Bare(<< "a", "b" >>) >>),
         Integer(1) >>),
    Container("Array", << Bare(<< "a", "b" >>), LongRaw, Bare(<< "a", "b" >>) >>),
    Container("Array", << LongRaw, Container("Array", << Integer(1), LongRaw >>),
                          Integer(1) >>),
    Container("Object", << Bare(<< "s", "i", "z", "e" >>), Integer(42),
                           Bare(<< "c", "o", "l", "o", "r" >>),
                           Bare(<< "r", "e", "d" >>) >>),
    Container("Object", << Bare(<< "b" >>), LongRaw, Bare(<< "B" >>), Quote,
                           Bare(<< "_" >>), Bare(<< "b" >>) >>),
    Container("When", << Container("Call", << Opcode(9), Variable(<< "x" >>) >>),
                         Container("Call", << Opcode(1), Variable(<< "x" >>) >>),
                         Container("Call", << Opcode(1), Variable(<< "x" >>) >>) >>),
    Container("Alt", << Container("Delete", << Variable(<< "x" >>) >>),
                        Container("Delete", << Variable(<< "x" >>) >>),
                        Quote >>),
    Container("Array",
      << Container("Object", << Bare(<< "k" >>), Container("Array", << Bare(<< "a", "b" >>) >>) >>),
         Container("Object", << Bare(<< "k" >>), Container("Array", << Bare(<< "a", "b" >>) >>) >>),
         Container("Call", << Bare(<< "k" >>), Container("Array", << Bare(<< "a", "b" >>) >>) >>) >>) }

\* The value trees handed to the encoder: containers have their arity and
\* object keys are scalars (strings and numbers, as in the source language).
RECURSIVE WellFormed(_)
WellFormed(x) ==
  /\ IsContainer(x) => ArityOk(x.t, Len(x.c))
  /\ x.t = "Object" => \A i \in DOMAIN x.c : i % 2 = 1 => ~IsContainer(x.c[i])
  /\ \A i \in DOMAIN x.c : WellFormed(x.c[i])

Values == { x \in Atoms \cup Level1 \cup Level2 \cup Extras : WellFormed(x) }

\* The encoder policies exercised: plain, dedup, dedup and index.
Options ==
  { [ dedupMin |-> 0, indexMin |-> 0 ],
    [ dedupMin |-> 2, indexMin |-> 0 ],
    [ dedupMin |-> 1, indexMin |-> 2 ] }

(***************************************************************************)
(* The highlighting tokenizer, tokenize(text).  text is a sequence of      *)
(* UTF-16 code units; the locals of one call are                           *)
(*   [pos, line, col, tokens, objectKeyMode].                              *)
(***************************************************************************)
TOKEN_TYPES ==
  << "byteLength", "keyword", "function", "variable", "number", "string",
     "operator", "property", "decorator", "annotation", "objectKey",
     "indexData" >>

\* The number of a token type (the constant T of the source).
TypeNumber(name) == (CHOOSE i \in DOMAIN TOKEN_TYPES : TOKEN_TYPES[i] = name) - 1

\* text.charCodeAt(pos); -1 stands for NaN past the end.
charCodeAt(text, pos) ==
  IF pos >= Len(text) THEN -1
  ELSE CASE text[pos + 1] = "\t" -> 9
         [] text[pos + 1] = "\r" -> 13
         [] text[pos + 1] = "U+00E9" -> 233
         [] text[pos + 1] = "U+2500" -> 9472
         [] OTHER -> ByteCode(text[pos + 1])

\* The locals of a call that starts.
\* Beside the locals of the source, two fields that no step reads record
\* what the call does: log, the events so far, and asKey, whether the value
\* being parsed is itself a child in key position of an object body.
NewLocals ==
  [ pos |-> 0, line |-> 0, col |-> 0, tokens |-> << >>, objectKeyMode |-> FALSE,
    asKey |-> FALSE, log |-> << >> ]

\* The event ev is recorded.
note(st, ev, a, b, c) ==
  [ st EXCEPT !.log = Append(@, [ ev |-> ev, a |-> a, b |-> b, c |-> c ]) ]

\* The value parsed next is, or is not, itself a key of an object.
asChild(st, key) == [ st EXCEPT !.asKey = key ]

\* An iteration of a loop (kind "top" or "pass") that began at pos = top
\* has ended with the locals q; left tells that it left the loop.
passed(kind, top, q, left) == note(q, kind, top, q.pos, IF left THEN 1 ELSE 0)

advance(text, st) ==
  [ st EXCEPT !.line = IF charCodeAt(text, st.pos) = 10 THEN @ + 1 ELSE @,
              !.col  = IF charCodeAt(text, st.pos) = 10 THEN 0 ELSE @ + 1,
              !.pos  = @ + 1 ]

\* An emit that pushes a token of any length.
emitAny(st, l, c, len, type) ==
  [ st EXCEPT !.tokens =
      Append(@, [ line |-> l, char |-> c, length |-> len,
                  type |-> TypeNumber(type) ]) ]

emit(st, l, c, len, type) ==
  IF len > 0
  THEN [ st EXCEPT !.tokens =
           Append(@, [ line |-> l, char |-> c, length |-> len,
                       type |-> TypeNumber(type) ]) ]
  ELSE st

\* A line-drawing character: U+2500 .. U+259F.
IsArt(text, pos) == charCodeAt(text, pos) >= 9472 /\ charCodeAt(text, pos) <= 9631

RECURSIVE readToTag(_, _)
\* A reader of prefixes that takes every character up to the next tag.
readToTag(text, st) ==
  IF st.pos < Len(text) /\ text[st.pos + 1] \notin VALUE_TAGS
  THEN readToTag(text, advance(text, st)) ELSE st

RECURSIVE readDigits(_, _)
\* while (pos < text.length && DIGIT_SET.has(text[pos])) advance();
readDigits(text, st) ==
  IF st.pos < Len(text) /\ text[st.pos + 1] \in DIGIT_SET
  THEN readDigits(text, advance(text, st)) ELSE st

RECURSIVE artRun(_, _)
\* The run of line-drawing characters at pos.
artRun(text, st) ==
  IF st.pos < Len(text) /\ IsArt(text, st.pos)
  THEN artRun(text, advance(text, st)) ELSE st

RECURSIVE artLine(_, _, _)
\* The rest of an annotation line: each run of line-drawing characters is a
\* token, everything else is skipped.
artLine(text, st, l) ==
  IF st.pos < Len(text) /\ charCodeAt(text, st.pos) # 10
  THEN IF IsArt(text, st.pos)
       THEN LET run == artRun(text, st)
            IN artLine(text, emit(run, l, st.col, run.pos - st.pos, "annotation"), l)
       ELSE artLine(text, advance(text, st), l)
  ELSE st

RECURSIVE lineComment(_, _)
lineComment(text, st) ==
  IF st.pos < Len(text) /\ charCodeAt(text, st.pos) # 10
  THEN lineComment(text, advance(text, st)) ELSE st

RECURSIVE blockComment(_, _)
\* The body of a block comment, up to and with its end marker.
blockComment(text, st) ==
  IF st.pos < Len(text)
  THEN IF /\ charCodeAt(text, st.pos) = 42
          /\ st.pos + 1 < Len(text)
          /\ charCodeAt(text, st.pos + 1) = 47
       THEN advance(text, advance(text, st))
       ELSE blockComment(text, advance(text, st))
  ELSE st

RECURSIVE skipNonCode(_, _)
skipNonCode(text, st) ==
  IF st.pos < Len(text)
  THEN LET c == charCodeAt(text, st.pos)
       IN IF c = 32 \/ c = 9 \/ c = 10 \/ c = 13
          THEN skipNonCode(text, advance(text, st))
          ELSE IF c >= 9472 /\ c <= 9631
          THEN skipNonCode(text, artLine(text, st, st.line))
          ELSE IF c = 47 /\ st.pos + 1 < Len(text) /\ charCodeAt(text, st.pos + 1) = 47
          THEN skipNonCode(text, lineComment(text, st))
          ELSE IF c = 47 /\ st.pos + 1 < Len(text) /\ charCodeAt(text, st.pos + 1) = 42
          THEN skipNonCode(text, blockComment(text, advance(text, advance(text, st))))
          ELSE st
  ELSE st

RECURSIVE advanceUpTo(_, _, _)
\* for (let i = 0; i < n && pos < text.length; i++) advance();
advanceUpTo(text, st, n) ==
  IF n > 0 /\ st.pos < Len(text)
  THEN advanceUpTo(text, advance(text, st), n - 1) ELSE st

\* Emit count#width as a single token; st holds the locals at the start of
\* the header, w those after it.
headerToken(st, w) == emit(w, st.line, st.col, w.pos - st.pos, "decorator")

\* if (pos > arrStart) emit(arrLine, arrCol, pos - arrStart, T.indexData);
indexDataToken(e, data) ==
  IF data.pos > e.pos
  THEN emit(data, e.line, e.col, data.pos - e.pos, "indexData") ELSE data

\* The count * width characters of index data after the header token.
indexData(text, count, width, e) ==
  IF width > 0 THEN indexDataToken(e, advanceUpTo(text, e, count * width)) ELSE e

\* The width digit after the #, when there is one; h holds the locals after
\* the #.
indexWidth(text, st, count, h) ==
  IF h.pos < Len(text) /\ text[h.pos + 1] \in DIGIT_SET
  THEN indexData(text, count, digitValue(text[h.pos + 1]),
                 headerToken(st, advance(text, h)))
  ELSE headerToken(st, h)

\* A rewind that puts back pos only.
rewindPos(st, d) == [ d EXCEPT !.pos = st.pos ]

\* pos = indexStart; line = indexLine; col = indexCol;
rewind(st, d) == [ d EXCEPT !.pos = st.pos, !.line = st.line, !.col = st.col ]

\* The # after the count digits (read up to d), or the rewind to the start
\* when there is none.
indexHeader(text, st, d) ==
  IF d.pos < Len(text) /\ text[d.pos + 1] = "#"
  THEN indexWidth(text, st, decodePrefix(text, st.pos, d.pos),
                  advance(text, note(d, "decodePrefix", st.pos, d.pos, 0)))
  ELSE rewind(st, d)

\* The index header <count>#<width> and its count * width characters of
\* index data at pos, just inside [ or {; the locals as they were when
\* there is none.
tryParseIndex(text, st) == indexHeader(text, st, readDigits(text, st))

RECURSIVE rawBody(_, _, _, _, _, _)
\* The content of a string container: i more characters, one token per
\* line; cLine, cCol, cLen describe the token being gathered.
rawBody(text, st, i, cLine, cCol, cLen) ==
  IF i > 0 /\ st.pos < Len(text)
  THEN IF charCodeAt(text, st.pos) = 10
       THEN LET a == advance(text, emit(st, cLine, cCol, cLen, "string"))
            IN rawBody(text, a, i - 1, a.line, a.col, 0)
       ELSE rawBody(text, advance(text, st), i - 1, cLine, cCol, cLen + 1)
  ELSE emit(st, cLine, cCol, cLen, "string")

\* if (pos < text.length && text[pos] === closer) advance();
closeWith(text, st, closer) ==
  IF st.pos < Len(text) /\ text[st.pos + 1] = closer THEN advance(text, st) ELSE st

\* if (pos === prev) advance();
stepOver(text, prev, q) == IF q.pos = prev THEN advance(text, q) ELSE q

\* if (pos > prefixStart) emit(prefixLine, prefixCol, pos - prefixStart,
\* T.byteLength); st holds the locals at the start of the prefix, d those
\* at the tag.
prefixToken(st, d) ==
  IF d.pos > st.pos THEN emit(d, st.line, st.col, d.pos - st.pos, "byteLength")
  ELSE d

\* A scalar: the prefix and its tag are one token; a holds the locals after
\* the tag.
scalarToken(st, a, type) == emit(a, st.line, st.col, a.pos - st.pos, type)

\* The one-character operator token of = and ~, after the prefix token.
operatorToken(text, st, d) ==
  emit(advance(text, prefixToken(st, d)), d.line, d.col, 1, "operator")

\* A string container of declared length n, whose content began at
\* pos = from, has been passed.
rawDone(q, from, n) == note(q, "raw", from, q.pos, n)

\* The string container's tag token and its content; a holds the locals
\* after the tag.
rawToken(text, d, byteLen, a) ==
  rawDone(IF byteLen > 0
          THEN rawBody(text, emit(a, d.line, d.col, 1, "string"), byteLen,
                       a.line, a.col, 0)
          ELSE emit(a, d.line, d.col, 1, "string"),
          a.pos, byteLen)

\* The token of a bare string, recorded with its number in the token list.
bareToken(q) == note(q, "bare", Len(q.tokens), IF q.asKey THEN 1 ELSE 0, 0)

RECURSIVE parseOneValue(_, _)
RECURSIVE valueAt(_, _)
RECURSIVE taggedAt(_, _, _)
RECURSIVE valueOfTag(_, _, _, _)
RECURSIVE parseChildren(_, _, _, _, _)
RECURSIVE childAt(_, _, _, _, _, _)
RECURSIVE afterChild(_, _, _, _, _, _, _)

\* A decimal whose prefix began at pos = from has been passed.
decimalDone(q, from) == note(q, "decimal", from, q.pos, 0)

\* A decimal that is its prefix and tag alone.
decimalAlone(text, st, d) ==
  decimalDone(scalarToken(st, advance(text, d), "number"), st.pos)

\* case "*": the prefix and tag are one token, then parseOneValue() for
\* the significand.
decimalValue(text, st, d) ==
  decimalDone(parseOneValue(text,
                asChild(scalarToken(st, advance(text, d), "number"), FALSE)),
              st.pos)

\* The loop over the children of a container up to closer; in an object,
\* isKey tells whether the next child is a key.
parseChildren(text, st, closer, isObject, isKey) ==
  IF st.pos < Len(text)
  THEN childAt(text, st.pos, skipNonCode(text, st), closer, isObject, isKey)
  ELSE st

\* One pass of the loop, entered at pos = top, after skipNonCode.
childAt(text, top, s, closer, isObject, isKey) ==
  IF s.pos >= Len(text) \/ text[s.pos + 1] = closer THEN passed("pass", top, s, TRUE)
  ELSE afterChild(text, top, s,
         parseOneValue(text,
           IF isObject THEN asChild([ s EXCEPT !.objectKeyMode = isKey ], isKey)
           ELSE asChild(s, FALSE)),
         closer, isObject, isKey)

\* The end of one pass: p holds the locals after the child that started
\* at s.
afterChild(text, top, s, p, closer, isObject, isKey) ==
  parseChildren(text,
    passed("pass", top,
      stepOver(text, s.pos,
        IF isObject THEN [ p EXCEPT !.objectKeyMode = s.objectKeyMode ] ELSE p),
      FALSE),
    closer, isObject, ~isKey)

parseOneValue(text, st0) == valueAt(text, skipNonCode(text, st0))

\* parseOneValue after skipNonCode.
valueAt(text, st) ==
  IF st.pos >= Len(text) THEN st
  ELSE IF text[st.pos + 1] \in Closers THEN st
  ELSE taggedAt(text, st, readDigits(text, st))

\* parseOneValue after the digit prefix, read from st up to d.
taggedAt(text, st, d) ==
  IF d.pos >= Len(text) THEN d
  ELSE IF text[d.pos + 1] \notin VALUE_TAGS THEN d
  ELSE valueOfTag(text, st, d, text[d.pos + 1])

\* switch (tag)
valueOfTag(text, st, d, tag) ==
  CASE tag \in { "?", "!", "|", "&" } ->
         IF d.pos + 1 < Len(text) /\ text[d.pos + 2] = "("
         THEN closeWith(text,
                parseChildren(text,
                  emit(advance(text, advance(text, prefixToken(st, d))),
                       d.line, d.col, 2, "keyword"),
                  ")", FALSE, FALSE), ")")
         ELSE d
    [] tag = "(" ->
         closeWith(text,
           parseChildren(text, advance(text, prefixToken(st, d)), ")", FALSE, FALSE),
           ")")
    [] tag = "[" ->
         closeWith(text,
           parseChildren(text,
             tryParseIndex(text, skipNonCode(text, advance(text, prefixToken(st, d)))),
             "]", FALSE, FALSE), "]")
    [] tag = "{" ->
         closeWith(text,
           parseChildren(text,
             tryParseIndex(text, skipNonCode(text, advance(text, prefixToken(st, d)))),
             "}", TRUE, TRUE), "}")
    [] tag = "," ->
         rawToken(text, d, decodePrefix(text, st.pos, d.pos),
                  advance(text, prefixToken(st, note(d, "decodePrefix", st.pos, d.pos, 0))))
    [] tag = "=" ->
         parseOneValue(text,
           asChild(parseOneValue(text, asChild(operatorToken(text, st, d), FALSE)),
                   FALSE))
    [] tag = "~" -> parseOneValue(text, asChild(operatorToken(text, st, d), FALSE))
    [] tag = "*" -> decimalValue(text, st, d)
    [] tag = "+" -> scalarToken(st, advance(text, d), "number")
    [] tag = ":" -> bareToken(scalarToken(st, advance(text, d),
                                IF d.objectKeyMode THEN "objectKey" ELSE "string"))
    [] tag = "%" -> scalarToken(st, advance(text, d), "keyword")
    [] tag = "@" -> scalarToken(st, advance(text, d), "property")
    [] tag = "$" -> scalarToken(st, advance(text, d), "variable")
    [] tag = "^" -> scalarToken(st, advance(text, d), "operator")

\* A pass of the main loop that does not skip an unknown character.
loopPassBare(text, top, s) ==
  IF s.pos >= Len(text) THEN passed("top", top, s, TRUE)
  ELSE passed("top", top, parseOneValue(text, asChild(s, FALSE)), FALSE)

\* One pass of the main loop, entered at pos = top, after skipNonCode.
loopPass(text, top, s) ==
  IF s.pos >= Len(text) THEN passed("top", top, s, TRUE)
  ELSE passed("top", top,
              stepOver(text, s.pos, parseOneValue(text, asChild(s, FALSE))), FALSE)

\* One pass of the main loop, entered with pos < text.length.
mainLoop(text, st) == loopPass(text, st.pos, skipNonCode(text, st))

RECURSIVE tokenizeFrom(_, _)
\* The locals at the end of the main loop.
tokenizeFrom(text, st) ==
  IF st.pos < Len(text) THEN tokenizeFrom(text, mainLoop(text, st)) ELSE st

tokenize(text) == tokenizeFrom(text, NewLocals).tokens

(***************************************************************************)
(* The codec as a state machine: a value is encoded, the buffer is decoded *)
(* and the decoded value encoded again, or the buffer is read along a path *)
(***************************************************************************)
VARIABLES v, opt, pc, buf, res, buf2, path, got, calls, program, json, tk

vars == << v, opt, pc, buf, res, buf2, path, got, calls, program, json, tk >>

NoOutcome == [ err |-> "none", at |-> 0, v |-> NoValue ]

Init ==
  /\ v \in Values
  /\ opt \in Options
  /\ pc = "start"
  /\ buf = << >>
  /\ res = NoOutcome
  /\ buf2 = << >>
  /\ path = << >>
  /\ got = NoOutcome
  /\ calls = << >>
  /\ program = << >>
  /\ json = << >>
  /\ tk = << >>

Encode ==
  /\ pc = "start"
  /\ buf' = encode(v, opt)
  /\ pc' = "encoded"
  /\ UNCHANGED << v, opt, res, buf2, path, got, calls, program, json, tk >>

Decode ==
  /\ pc = "encoded"
  /\ res' = Outcome(decode(buf))
  /\ pc' = "decoded"
  /\ UNCHANGED << v, opt, buf, buf2, path, got, calls, program, json, tk >>

Reencode ==
  /\ pc = "decoded"
  /\ res.err = "OK"
  /\ buf2' = encode(res.v, opt)
  /\ pc' = "reencoded"
  /\ UNCHANGED << v, opt, buf, res, path, got, calls, program, json, tk >>

Get(p) ==
  /\ pc = "encoded"
  /\ path' = p
  /\ got' = Outcome(get(buf, p))
  /\ pc' = "got"
  /\ UNCHANGED << v, opt, buf, res, buf2, calls, program, json, tk >>

Next ==
  \/ Encode
  \/ Decode
  \/ Reencode
  \/ \E p \in PathsOf(v) : Get(p)

Spec == Init /\ [][Next]_vars

(***************************************************************************)
(* The codec on numbers: every integer and every decimal power of a range. *)
(***************************************************************************)
\* Largest magnitude of the numbers and powers.
MaxInt == 42

Numbers ==
  { Integer(n) : n \in (-MaxInt)..MaxInt }
    \cup { Decimal(p, n) : p \in (-MaxInt)..MaxInt, n \in { -1, 1 } }

IntInit ==
  /\ v \in Numbers
  /\ opt \in Options
  /\ pc = "start"
  /\ buf = << >>
  /\ res = NoOutcome
  /\ buf2 = << >>
  /\ path = << >>
  /\ got = NoOutcome
  /\ calls = << >>
  /\ program = << >>
  /\ json = << >>
  /\ tk = << >>

IntSpec == IntInit /\ [][Next]_vars

(***************************************************************************)
(* The codec on digit runs: opcodes and references carry a plain unsigned  *)
(* number as their digits; a caller may hand the decoder a buffer whose    *)
(* digits are preceded by zero digits.                                     *)
(***************************************************************************)
\* Every number up to MaxNum is tried.
MaxNum == 70

\* Most zero digits put in front of a buffer.
MaxPad == 2

\* Numbers on both sides of each digit count's limit.
DigitProbes ==
  { 4095, 4096, 4097, 262143, 262144, 16777215, 16777216, 1073741823 }

Unsigned ==
  { Opcode(n) : n \in (0..MaxNum) \cup DigitProbes }
    \cup { Reference(n) : n \in (0..MaxNum) \cup DigitProbes }

DigitInit ==
  /\ v \in Unsigned
  /\ opt \in Options
  /\ pc = "start"
  /\ buf = << >>
  /\ res = NoOutcome
  /\ buf2 = << >>
  /\ path = << >>
  /\ got = NoOutcome
  /\ calls = << >>
  /\ program = << >>
  /\ json = << >>
  /\ tk = << >>

\* The caller puts one more zero digit in front of the encoded buffer.
Pad ==
  /\ pc = "encoded"
  /\ Len(buf) < Len(encode(v, opt)) + MaxPad
  /\ buf' = << "0" >> \o buf
  /\ UNCHANGED << v, opt, pc, res, buf2, path, got, calls, program, json, tk >>

DigitNext ==
  \/ Encode
  \/ Pad
  \/ Decode
  \/ Reencode
  \/ \E p \in PathsOf(v) : Get(p)

DigitSpec == DigitInit /\ [][DigitNext]_vars

(***************************************************************************)
(* The decoder on damaged buffers: the caller hands decode and get a       *)
(* buffer that is an encoder output cut short or with one byte replaced,   *)
(* or the bytes of a tree whose operators have the wrong number of         *)
(* children.                                                               *)
(***************************************************************************)
\* Trees with a container of the wrong child count, where a closer or a
\* declared body length tells where the container's children end.
ArityBroken ==
  { Container("When", << >>),
    Container("When", << Integer(1) >>),
    Container("When", << Integer(1), Integer(0), Integer(1), Integer(0) >>),
    Container("Unless", << Integer(1) >>),
    Container("Unless", << Integer(1), Integer(0), Integer(1), Integer(0) >>),
    Container("Alt", << >>),
    Container("All", << >>),
    Container("Array", << Container("Set", << Variable(<< "x" >>) >>) >>),
    Container("Array", << Integer(1), Container("Set", << >>) >>),
    Container("Array", << Integer(1), Container("Set", << Variable(<< "x" >>) >>) >>),
    Container("Array", << Container("Delete", << >>) >>),
    Container("When", << Integer(1), Container("Set", << Variable(<< "x" >>) >>),
                         Integer(1) >>),
    Container("When", << Integer(1),
                         Container("Set", << Variable(<< "x" >>), Integer(1), Integer(0) >>),
                         Integer(1) >>),
    Container("Alt", << Integer(1), Container("Delete", << Variable(<< "x" >>), Integer(1) >>),
                        Integer(0) >>),
    Container("Call", << Opcode(1), Container("Set", << Variable(<< "x" >>) >>) >>),
    Container("When", << Integer(1), Integer(0), Container("Delete", << >>) >>),
    Container("Array", << Container("Array", << Integer(1), Container("Alt", << >>) >>),
                          Integer(1) >>),
    Container("Object", << Bare(<< "a" >>),
                           Container("Unless", << Variable(<< "x" >>) >>) >>) }

\* Operators of fixed arity that the end of the buffer cuts short.
ArityCut ==
  { Container("Set", << >>),
    Container("Set", << Variable(<< "x" >>) >>),
    Container("Delete", << >>) }

\* Well-formed trees with pointers, indexes, prefixes and every container.
Sound ==
  { Integer(1), RawString(<< "\"", "\n" >>), Bare(<< "a", "b" >>),
    Container("Array", << Integer(1), Integer(1) >>),
    Container("Array", << Container("Array", << Integer(1) >>),
                          Container("Array", << Integer(1) >>), Integer(1) >>),
    Container("Array", << Container("Array", << Integer(1) >>),
                          Container("Set", << Variable(<< "x" >>), Integer(1) >>),
                          RawString(<< "]", "^" >>), Integer(1) >>),
    Container("Object", << Bare(<< "s", "z" >>), Integer(42),
                           Bare(<< "c", "o" >>), Bare(<< "r", "e", "d" >>) >>),
    Container("Object", << Bare(<< "a" >>), Container("Array", << Integer(1), Integer(1) >>),
                           Bare(<< "b" >>), Container("Array", << Integer(1), Integer(1) >>) >>),
    Container("When", << Container("Call", << Opcode(9), Variable(<< "x" >>) >>),
                         Container("Call", << Opcode(1), Variable(<< "x" >>) >>),
                         Container("Call", << Opcode(1), Variable(<< "x" >>) >>) >>),
    Container("Unless", << Variable(<< "x" >>), Decimal(-2, -314) >>),
    Container("Alt", << Container("Delete", << Variable(<< "x" >>) >>),
                        Container("All", << Integer(1), Integer(1) >>) >>) }

DecValues == Sound \cup ArityBroken \cup ArityCut

\* The bytes a damaged buffer holds in place of an original one.
DamageBytes == { "^", ".", ")", "]" }

DecInit ==
  /\ v \in DecValues
  /\ opt \in Options
  /\ pc = "start"
  /\ buf = << >>
  /\ res = NoOutcome
  /\ buf2 = << >>
  /\ path = << >>
  /\ got = NoOutcome
  /\ calls = << >>
  /\ program = << >>
  /\ json = << >>
  /\ tk = << >>

\* The caller hands over only the first k bytes of the encoder's output.
Truncate(k) ==
  /\ pc = "encoded"
  /\ buf = encode(v, opt)
  /\ k < Len(buf)
  /\ buf' = SubSeq(buf, 1, k)
  /\ UNCHANGED << v, opt, pc, res, buf2, path, got, calls, program, json, tk >>

\* Byte number i of the encoder's output is replaced by b.
Overwrite(i, b) ==
  /\ pc = "encoded"
  /\ buf = encode(v, opt)
  /\ i \in DOMAIN buf
  /\ buf[i] # b
  /\ buf' = [ buf EXCEPT ![i] = b ]
  /\ UNCHANGED << v, opt, pc, res, buf2, path, got, calls, program, json, tk >>

DecNext ==
  \/ Encode
  \/ \E k \in 0..Len(buf) : Truncate(k)
  \/ \E i \in DOMAIN buf, b \in DamageBytes : Overwrite(i, b)
  \/ Decode
  \/ Reencode
  \/ \E p \in PathsOf(v) : Get(p)

DecSpec == DecInit /\ [][DecNext]_vars

(***************************************************************************)
(* Calls that share one buffer.  Each call of tokenize, decode or get has  *)
(* its own locals; the calls take their steps in any order: a tokenize     *)
(* call one pass of its main loop at a time, decode and get in one step.   *)
(***************************************************************************)
\* Number of calls in flight.
NCalls == 2

\* Documents and encoded values the calls share.
SharedTexts ==
  { << "2", "+", " ", "[", "^", "2", "+", "]", "\n", "/", "/", "x", "\n", "+" >>,
    << "U+2500", "U+2500", " ", "+", "\n", "{", "a", ":", "1", "+", "}", "\t", "$" >>,
    << "3", ",", "a", "\n", "b", "2", "+", "\r", "\n", "U+00E9", "1", "2" >>,
    << "[", "2", "#", "1", "0", "2", "2", "+", "4", "+", "]", ".", "a", ":" >>,
    << "/", "*", "x", "*", "/", "=", "x", "$", "2", "+", "~", "y", "$", ")" >>,
    << "?", "(", "+", "+", ")", "1", "*", "2", "+", "%", "@", "?", "+" >>,
    encode(Container("Array", << Container("Array", << Integer(1) >>),
                                 Container("Array", << Integer(1) >>), Integer(1) >>),
           [ dedupMin |-> 1, indexMin |-> 2 ]),
    encode(Container("Object", << Bare(<< "a" >>), Container("Array", << Integer(1), Integer(1) >>),
                                  Bare(<< "b" >>), RawString(<< "]", "\n" >>) >>),
           [ dedupMin |-> 2, indexMin |-> 0 ]) }

\* The paths the get calls ask for.
SharedPaths ==
  { << IndexStep(0) >>, << IndexStep(1), IndexStep(0) >>,
    << KeyStep(Bare(<< "a" >>)), IndexStep(1) >> }

\* A call that has not taken a step.
NewCall(kind, p) ==
  [ kind |-> kind, path |-> p, st |-> NewLocals, done |-> FALSE, out |-> NoOutcome ]

CallKinds ==
  { NewCall("tokenize", << >>), NewCall("decode", << >>) }
    \cup { NewCall("get", p) : p \in SharedPaths }

\* Every call reads the locals of the first call.
localsOfFirst(cs, c) == cs[1].st

\* The locals a call works on: tokens, pos, line, col and objectKeyMode are
\* declared inside tokenize, one set per call.
localsOf(cs, c) == cs[c].st

ShareInit ==
  /\ v = NoValue
  /\ opt \in { [ dedupMin |-> 0, indexMin |-> 0 ] }
  /\ pc = "shared"
  /\ buf \in SharedTexts
  /\ res = NoOutcome
  /\ buf2 = << >>
  /\ path = << >>
  /\ got = NoOutcome
  /\ calls \in [ 1..NCalls -> CallKinds ]
  /\ program = << >>
  /\ json = << >>
  /\ tk = << >>

\* One pass of the main loop of tokenize call c.
TokenizeStep(c) ==
  /\ calls[c].kind = "tokenize" /\ ~calls[c].done
  /\ localsOf(calls, c).pos < Len(buf)
  /\ calls' = [ calls EXCEPT ![c].st = mainLoop(buf, localsOf(calls, c)) ]
  /\ UNCHANGED << v, opt, pc, buf, res, buf2, path, got, program, json, tk >>

\* tokenize call c leaves its main loop and returns its tokens.
TokenizeReturn(c) ==
  /\ calls[c].kind = "tokenize" /\ ~calls[c].done
  /\ localsOf(calls, c).pos >= Len(buf)
  /\ calls' = [ calls EXCEPT ![c].done = TRUE ]
  /\ UNCHANGED << v, opt, pc, buf, res, buf2, path, got, program, json, tk >>

DecodeCall(c) ==
  /\ calls[c].kind = "decode" /\ ~calls[c].done
  /\ calls' = [ calls EXCEPT ![c].out = Outcome(decode(buf)), ![c].done = TRUE ]
  /\ UNCHANGED << v, opt, pc, buf, res, buf2, path, got, program, json, tk >>

GetCall(c) ==
  /\ calls[c].kind = "get" /\ ~calls[c].done
  /\ calls' = [ calls EXCEPT ![c].out = Outcome(get(buf, calls[c].path)),
                             ![c].done = TRUE ]
  /\ UNCHANGED << v, opt, pc, buf, res, buf2, path, got, program, json, tk >>

ShareNext ==
  \E c \in DOMAIN calls :
    \/ TokenizeStep(c)
    \/ TokenizeReturn(c)
    \/ DecodeCall(c)
    \/ GetCall(c)

ShareSpec == ShareInit /\ [][ShareNext]_vars

(***************************************************************************)
(* The compiler: the toJSON operation over the match tree of a program.    *)
(* A node is [rule, src, kids]: the grammar rule that matched, the source  *)
(* text it matched (a sequence of characters) and its children, in the     *)
(* order in which the rule's action receives them.                         *)
(***************************************************************************)
Node(rule, src, kids) == [ rule |-> rule, src |-> src, kids |-> kids ]

\* A terminal, and an iteration (the children of a repetition).
Leaf(src) == Node("_terminal", src, << >>)

Iter(kids) == Node("_iter", << >>, kids)

\* JSON values.  A number is a sign and a magnitude, the magnitude written
\* as its binary digits, most significant first and without leading zeros.
JValue(t, neg, mag, s, items) ==
  [ t |-> t, neg |-> neg, mag |-> mag, s |-> s, items |-> items ]

JNumber(neg, mag) == JValue("number", neg, mag, << >>, << >>)

JString(s) == JValue("string", FALSE, << >>, s, << >>)

JArray(items) == JValue("array", FALSE, << >>, << >>, items)

JNull == JValue("null", FALSE, << >>, << >>, << >>)

JUndefined == JValue("undefined", FALSE, << >>, << >>, << >>)

\* What a call of toJSON ends with: a value, or the Error("TODO: <rule>")
\* it throws.
Returned(x) == [ threw |-> "", v |-> x ]

Thrown(rule) == [ threw |-> rule, v |-> JUndefined ]

\* The value of a digit of a literal.
LiteralDigits ==
  << "0", "1", "2", "3", "4", "5", "6", "7", "8", "9", "a", "b", "c", "d", "e", "f" >>

LiteralDigitValue(c) ==
  IF \E i \in DOMAIN LiteralDigits : LiteralDigits[i] = c
  THEN (CHOOSE i \in DOMAIN LiteralDigits : LiteralDigits[i] = c) - 1
  ELSE CASE c = "A" -> 10 [] c = "B" -> 11 [] c = "C" -> 12
         [] c = "D" -> 13 [] c = "E" -> 14 [] c = "F" -> 15

\* 2^k.
RECURSIVE Pow2(_)
Pow2(k) == IF k = 0 THEN 1 ELSE 2 * Pow2(k - 1)

\* The binary digits of a digit string in radix 2^k.
RadixBits(digits, k) ==
  [ i \in 1..(k * Len(digits)) |->
      (LiteralDigitValue(digits[(i - 1) \div k + 1]) \div Pow2(k - 1 - ((i - 1) % k))) % 2 ]

\* Binary digits without their leading zeros.
Significant(bits) ==
  IF \A i \in DOMAIN bits : bits[i] = 0 THEN << >>
  ELSE SubSeq(bits, CHOOSE i \in DOMAIN bits :
                      bits[i] = 1 /\ \A j \in 1..(i - 1) : bits[j] = 0,
              Len(bits))

\* Binary digits of the significand of a Number.
DoubleBits == 53

\* bits + 1, for bits that are not all ones.
Successor(bits) ==
  LET z == CHOOSE i \in DOMAIN bits : bits[i] = 0 /\ \A j \in (i + 1)..Len(bits) : bits[j] = 1
  IN [ i \in DOMAIN bits |-> IF i < z THEN bits[i] ELSE IF i = z THEN 1 ELSE 0 ]

\* The Number nearest to an integer given by its significant binary digits
\* (ties to the even significand).
ToNumber(bits) ==
  IF Len(bits) <= DoubleBits THEN bits
  ELSE LET kept == SubSeq(bits, 1, DoubleBits)
           rest == SubSeq(bits, DoubleBits + 1, Len(bits))
           zeros == [ i \in DOMAIN rest |-> 0 ]
           above == \E i \in 2..Len(rest) : rest[i] = 1
           up == rest[1] = 1 /\ (above \/ kept[DoubleBits] = 1)
       IN IF ~up THEN kept \o zeros
          ELSE IF \A i \in DOMAIN kept : kept[i] = 1
          THEN << 1 >> \o [ i \in DOMAIN kept |-> 0 ] \o zeros
          ELSE Successor(kept) \o zeros

\* parseInt(digits, radix) for a string of digits of radix 16 or 2.
parseInt(digits, radix) ==
  ToNumber(Significant(RadixBits(digits, IF radix = 16 THEN 4 ELSE 1)))

\* The binary digits of a natural number.
RECURSIVE NatBits(_)
NatBits(n) == IF n = 0 THEN << >> ELSE Append(NatBits(n \div 2), n % 2)

\* The value of a string of decimal digits.
RECURSIVE DecimalValue(_)
DecimalValue(digits) ==
  IF digits = << >> THEN 0
  ELSE 10 * DecimalValue(SubSeq(digits, 1, Len(digits) - 1))
         + LiteralDigitValue(digits[Len(digits)])

\* parseFloat(src) for the source of an integer literal: an optional - and
\* decimal digits.
parseFloat(src) ==
  IF src # << >> /\ src[1] = "-"
  THEN JNumber(TRUE, NatBits(DecimalValue(Tail(src))))
  ELSE JNumber(FALSE, NatBits(DecimalValue(src)))

\* The first of the results rs that is a throw, if any.
FirstThrown(rs) ==
  rs[CHOOSE i \in DOMAIN rs : rs[i].threw # "" /\ \A j \in 1..(i - 1) : rs[j].threw = ""]

AnyThrown(rs) == \E i \in DOMAIN rs : rs[i].threw # ""

RECURSIVE toJSON(_)
\* children.map((child) => child.toJSON())
MapToJSON(kids) == [ i \in DOMAIN kids |-> toJSON(kids[i]) ]

\* The results of a map that has not thrown, as values.
ValuesOf(rs) == [ i \in DOMAIN rs |-> rs[i].v ]

\* Program(expressions): expressions is an iteration.
Program(expressions) ==
  IF Len(expressions.kids) > 1
  THEN IF AnyThrown(MapToJSON(expressions.kids))
       THEN FirstThrown(MapToJSON(expressions.kids))
       ELSE Returned(JArray(<< JString(<< "$", "d", "o" >>) >>
                              \o ValuesOf(MapToJSON(expressions.kids))))
  ELSE IF Len(expressions.kids) = 1 THEN toJSON(expressions.kids[1])
  ELSE Returned(JNull)

\* Expr_call(_lp, action, args, _rp): the arguments are compiled for the
\* console.log, then the action throws.
Expr_call(action, args) ==
  IF AnyThrown(MapToJSON(args.kids)) THEN FirstThrown(MapToJSON(args.kids))
  ELSE Thrown("Expr_call")

\* A literal's action that leaves the sign out.
unsignedNumber(arg0, arg1) == Returned(JNumber(FALSE, parseInt(arg1.src, 16)))

\* hexNumber(arg0, _0x, arg1) and binaryNumber(arg0, _0b, arg1): the product
\* with -1 or 1 sets the sign and keeps the magnitude.
hexNumber(arg0, arg1) ==
  Returned(JNumber(arg0.src = << "-" >>, parseInt(arg1.src, 16)))

binaryNumber(arg0, arg1) ==
  Returned(JNumber(arg0.src = << "-" >>, parseInt(arg1.src, 2)))

toJSON(node) ==
  CASE node.rule = "Program" -> Program(node.kids[1])
    [] node.rule = "_iter" ->
         IF AnyThrown(MapToJSON(node.kids)) THEN FirstThrown(MapToJSON(node.kids))
         ELSE Returned(JArray(ValuesOf(MapToJSON(node.kids))))
    [] node.rule = "Expr_atom" -> toJSON(node.kids[1])
    [] node.rule = "Expr_call" -> Expr_call(node.kids[2], node.kids[3])
    [] node.rule = "hexNumber" -> hexNumber(node.kids[1], node.kids[3])
    [] node.rule = "binaryNumber" -> binaryNumber(node.kids[1], node.kids[3])
    [] node.rule = "decimalNumber" -> Returned(parseFloat(node.src))
    [] node.rule = "Atom_null" -> Returned(JNull)
    [] node.rule = "Atom_undefined" -> Returned(JUndefined)
    [] OTHER -> Thrown(node.rule)

(***************************************************************************)
(* Programs and their compilation.                                         *)
(***************************************************************************)
\* Most digits of a generated hexadecimal and of a binary literal.
MaxHex == 2

MaxBin == 4

HexLiteral(sign, digits) ==
  Node("Expr_atom", sign \o << "0", "x" >> \o digits,
       << Node("hexNumber", sign \o << "0", "x" >> \o digits,
               << Leaf(sign), Leaf(<< "0", "x" >>), Leaf(digits) >>) >>)

BinaryLiteral(sign, digits) ==
  Node("Expr_atom", sign \o << "0", "b" >> \o digits,
       << Node("binaryNumber", sign \o << "0", "b" >> \o digits,
               << Leaf(sign), Leaf(<< "0", "b" >>), Leaf(digits) >>) >>)

DecimalLiteral(src) == Node("Expr_atom", src, << Node("decimalNumber", src, << >>) >>)

Call(action, args) ==
  Node("Expr_call", << "(" >> \o action \o << ")" >>,
       << Leaf(<< "(" >>), Leaf(action), Iter(args), Leaf(<< ")" >>) >>)

Repeat(c, n) == [ i \in 1..n |-> c ]

\* Literals around the precision of a Number: the largest odd integer that
\* is exact, and integers of one binary digit more.
WideHex ==
  { << "1" >> \o Repeat("F", (DoubleBits - 1) \div 4),
    << "2" >> \o Repeat("0", (DoubleBits - 1) \div 4 - 1) \o << "1" >>,
    << "2" >> \o Repeat("0", (DoubleBits - 1) \div 4 - 1) \o << "3" >>,
    << "2" >> \o Repeat("0", (DoubleBits - 1) \div 4 - 1) \o << "2" >>,
    << "3" >> \o Repeat("f", (DoubleBits - 1) \div 4) }

WideBin ==
  { Repeat("1", DoubleBits),
    << "1" >> \o Repeat("0", DoubleBits - 1) \o << "1" >>,
    << "1" >> \o Repeat("0", DoubleBits - 2) \o << "1", "1" >>,
    Repeat("1", DoubleBits + 1) }

HexStrings ==
  { s \in SeqsUpTo({ "0", "2", "9", "a", "A", "f" }, MaxHex) : s # << >> }
    \cup { << "2", "A" >>, << "0", "0", "2", "a" >> } \cup WideHex

BinStrings ==
  { s \in SeqsUpTo({ "0", "1" }, MaxBin) : s # << >> }
    \cup { << "1", "0", "1", "0", "1", "0" >> } \cup WideBin

Signs == { << >>, << "-" >> }

Literals ==
  { HexLiteral(sg, d) : sg \in Signs, d \in HexStrings }
    \cup { BinaryLiteral(sg, d) : sg \in Signs, d \in BinStrings }
    \cup { DecimalLiteral(s) : s \in { << "4", "2" >>, << "-", "4", "2" >>, << "1" >>,
                                       << "2" >>, << "0" >> } }

Calls ==
  { Call(<< "a", "d", "d" >>, << DecimalLiteral(<< "1" >>), DecimalLiteral(<< "2" >>) >>),
    Call(<< "n", "o", "w" >>, << >>),
    Call(<< "n", "e", "g" >>, << HexLiteral(<< "-" >>, << "2", "A" >>) >>),
    Call(<< "f" >>, << Call(<< "g" >>, << DecimalLiteral(<< "1" >>) >>) >>),
    Call(<< "f" >>, << Node("Atom_null", << "n", "u", "l", "l" >>, << >>) >>),
    Call(<< "f" >>, << Node("Atom_string", << "'", "s", "'" >>, << >>),
                       DecimalLiteral(<< "1" >>) >>) }

\* A program of the expressions es.
ProgramOf(es) == Node("Program", << >>, << Iter(es) >>)

Programs ==
  { ProgramOf(<< e >>) : e \in Literals \cup Calls }
    \cup { ProgramOf(<< >>),
           ProgramOf(<< DecimalLiteral(<< "1" >>), DecimalLiteral(<< "2" >>) >>),
           ProgramOf(<< DecimalLiteral(<< "1" >>),
                        Call(<< "n", "o", "w" >>, << >>) >>),
           ProgramOf(<< Node("Atom_undefined", << >>, << >>) >>),
           ProgramOf(<< Node("Expr_binding", << "x", "=", "1" >>, << >>) >>) }

CompileInit ==
  /\ v = NoValue
  /\ opt \in { [ dedupMin |-> 0, indexMin |-> 0 ] }
  /\ pc = "parsed"
  /\ buf = << >>
  /\ res = NoOutcome
  /\ buf2 = << >>
  /\ path = << >>
  /\ got = NoOutcome
  /\ calls = << >>
  /\ program \in Programs
  /\ json = << >>
  /\ tk = << >>

\* semantics(match).toJSON()
Compile ==
  /\ pc = "parsed"
  /\ json' = toJSON(program)
  /\ pc' = "compiled"
  /\ UNCHANGED << v, opt, buf, res, buf2, path, got, calls, program, tk >>

CompileNext == Compile

CompileSpec == CompileInit /\ [][CompileNext]_vars

(***************************************************************************)
(* A document is tokenized, one pass of the main loop at a time, and its   *)
(* UTF-8 bytes are decoded.                                                *)
(***************************************************************************)
\* Longest document made of every combination of TokAlphabet.
TokLen == 3

TokAlphabet == { "2", ":", ",", "{", "]", "#", "?", "(", "\n" }

Documents ==
  {
    \* keys and values of an object, an array as a value
    << "{", "a", ":", "1", "+", "b", ":", "[", "c", ":", "]", "}" >>,
    \* an array, a call and operators in key position
    << "{", "[", "a", ":", "]", "b", ":", "(", "c", ":", ")", "d", ":", "}" >>,
    << "{", "=", "a", ":", "b", ":", "c", ":", "~", "d", ":", "e", ":", "}" >>,
    << "{", "1", "*", "f", ":", "g", ":", "{", "h", ":", "i", ":", "}", "j", ":", "}" >>,
    \* bare strings outside objects
    << "a", ":", "[", "b", ":", "]", "=", "c", ":", "d", ":" >>,
    \* index headers, with data on one line and over line ends
    << "[", "2", "#", "1", "0", "2", "2", "+", "4", "+", "]" >>,
    << "[", "1", "#", "1", "\n", "]" >>,
    << "{", "2", "#", "1", "\n", "\n", "a", ":", "+", "}" >>,
    << "[", "3", "#", "2", "a", "b" >>,
    << "[", "2", "#", ".", "1", "+", "]" >>,
    \* digits after an opener that are no index
    << "[", "1", "2", "]" >>,
    << "{", "a", "b", ":", "1", "+", "}" >>,
    << "[", "\n", "1", "2", "+", "]" >>,
    \* string containers: closers, tags and comment markers inside, lines, wide characters, cut short
    << "[", "3", ",", "a", "]", "b", "]", "1", "+" >>,
    << "(", "4", ",", "/", "/", "#", "1", ")", "2", "+" >>,
    << "3", ",", "a", "\n", "b", "2", "+" >>,
    << "3", ",", "\n", "\n", "c", "1", "+" >>,
    << "[", "2", ",", "U+00E9", "]", "1", "+" >>,
    << "[", "1", ",", "U+00E9", "]", "1", "+" >>,
    << "5", ",", "a", "b" >>,
    << ",", "1", "+" >>,
    \* decimals
    << "1", "*", "2", "+" >>,
    << "*", "a", ":", "1", "+" >>,
    << "[", "2", "*", "]", "1", "+" >>,
    << "2", "*", "3", "*", "4", "+" >>,
    << "[", "1", "*", "^", "2", "+", "]" >>,
    \* control flow, bare tags, unterminated containers
    << "?", "(", "1", "+", "2", "+", ")", "!", "(", "x", "$", ")" >>,
    << "?", "1", "+", "|", "&", "(" >>,
    << "[", "[", "{", "(" >>,
    \* annotations and comments
    << "U+2500", "U+2500", " ", "x", "U+2500", "\n", "1", "+" >>,
    << "/", "*", "x", "\n", "*", "/", "1", "+", "/", "/", "y", "\n", "2", "+" >>,
    << "/", "*" >>,
    \* orphan digits, unknown characters, closers
    << "1", "2", "3" >>,
    << ".", "#", "\t", ")", "]", "}" >>,
    << "1", "+", " ", "2", "%", "3", "@", "x", "$", "^", "\r", "\n" >> }

TokTexts == SeqsUpTo(TokAlphabet, TokLen) \cup Documents \cup SharedTexts

TokInit ==
  /\ v = NoValue
  /\ opt \in { [ dedupMin |-> 0, indexMin |-> 0 ] }
  /\ pc = "idle"
  /\ buf = << >>
  /\ res = NoOutcome
  /\ buf2 = << >>
  /\ path = << >>
  /\ got = NoOutcome
  /\ calls = << >>
  /\ program = << >>
  /\ json = << >>
  /\ tk = NewLocals

\* tokenize(text) is called: the locals are those of a call that starts.
TokCall(text) ==
  /\ pc = "idle"
  /\ buf' = text
  /\ pc' = "tokenizing"
  /\ UNCHANGED << v, opt, res, buf2, path, got, calls, program, json, tk >>

\* while (pos < text.length) { ... }: one pass of the main loop.
TokStep ==
  /\ pc = "tokenizing"
  /\ tk.pos < Len(buf)
  /\ tk' = mainLoop(buf, tk)
  /\ UNCHANGED << v, opt, pc, buf, res, buf2, path, got, calls, program, json >>

\* return tokens;
TokReturn ==
  /\ pc = "tokenizing"
  /\ tk.pos >= Len(buf)
  /\ pc' = "returned"
  /\ UNCHANGED << v, opt, buf, res, buf2, path, got, calls, program, json, tk >>

\* The document's bytes are decoded.
ReadText ==
  /\ pc = "returned"
  /\ res' = Outcome(decode(Utf8(buf)))
  /\ pc' = "read"
  /\ UNCHANGED << v, opt, buf, buf2, path, got, calls, program, json, tk >>

TokNext ==
  \/ \E text \in TokTexts : TokCall(text)
  \/ TokStep
  \/ TokReturn
  \/ ReadText

TokSpec == TokInit /\ [][TokNext]_vars

\* A call of tokenize that has started goes on: it runs synchronously to
\* its end.  The last conjunct is WF_vars(TokStep) with ENABLED written out
\* as the guard of TokStep, a pass of the loop changing the locals whenever
\* that guard holds.
TokFairSpec ==
  /\ TokSpec
  /\ WF_vars(TokReturn)
  /\ \/ []<>~(pc = "tokenizing" /\ tk.pos < Len(buf))
     \/ []<><<TokStep>>_vars

\* The tokens of the encoder's output, as the decoder reads them.
Scanned == Parse(buf, 0, Top)

Tokens == Scanned.toks

(***************************************************************************)
(* Properties of the encoder's output                                      *)
(***************************************************************************)
\* The scan read the whole buffer as one value.
ScanOk == Scanned.err = "OK" /\ Scanned.next = Len(buf)

IsPointer(t) == t.tag = "^"

ContainerTags == { "[", "{", "(", "=", "~", "?", "!", "|", "&" }

\* A literally emitted container token.
IsLiteralContainer(t) == t.tag \in ContainerTags

\* The number of bytes between a token's header and its closer.
BodyLen(t) == t.end - t.close - (t.o + t.hdr)

\* Token t lies inside the body of token u.
Inside(t, u) == u.o < t.o /\ t.end <= u.end

\* C1: decoding the encoding of any value tree gives the tree back, with
\* pointers resolved to the values they stand for and indexes left out; no
\* pointer appears in the decoded value.
RoundTrip == pc = "decoded" => (res.err = "OK" /\ res.v = v)

\* A decoded buffer that holds a dedup pointer and an indexed container.
RoundTripSeen ==
  LET T == Tokens IN
    /\ pc = "decoded" /\ res.v = v
    /\ \E i \in DOMAIN T : IsPointer(T[i])
    /\ \E i \in DOMAIN T : T[i].ix.on

\* C2: encoding the decoded value again gives the same bytes as the first
\* encoding.
CanonicalIdempotence == pc = "reencoded" => buf2 = buf

\* A re-encoded buffer with a pointer, an index and a length prefix.
CanonicalIdempotenceSeen ==
  LET T == Tokens IN
    /\ pc = "reencoded" /\ buf2 = buf
    /\ \E i \in DOMAIN T : IsPointer(T[i]) /\ T[i].dl > 0
    /\ \E i \in DOMAIN T : T[i].ix.on
    /\ \E i \in DOMAIN T : IsLiteralContainer(T[i]) /\ T[i].dl > 0

\* C3 as stated: every pointer's target lies strictly after the end of the
\* pointer token and before the end of the buffer, and is no pointer tag.
StrictlyForwardPointers ==
  LET T == Tokens IN
    pc = "encoded" =>
      /\ ScanOk
      /\ \A i \in DOMAIN T : IsPointer(T[i]) =>
           /\ T[i].target > T[i].end
           /\ T[i].target < Len(buf)
           /\ buf[T[i].target + 1] # "^"

\* C3: every pointer's target lies at or after the first byte that follows
\* the pointer token (offset 0 is that byte) and before the end of the
\* buffer, and the byte there is no pointer tag.
ForwardPointers ==
  LET T == Tokens IN
    pc = "encoded" =>
      /\ ScanOk
      /\ \A i \in DOMAIN T : IsPointer(T[i]) =>
           /\ T[i].target >= T[i].end
           /\ T[i].target < Len(buf)
           /\ buf[T[i].target + 1] # "^"

\* An output with a pointer of offset 0 and a pointer of a larger offset.
ForwardPointersSeen ==
  LET T == Tokens IN
    /\ pc = "encoded"
    /\ \E i \in DOMAIN T : IsPointer(T[i]) /\ T[i].target = T[i].end
    /\ \E i \in DOMAIN T : IsPointer(T[i]) /\ T[i].target > T[i].end

\* C4: every pointer's target is the first byte of a complete token of the
\* main traversal that is no pointer, that comes after the pointer and that
\* encodes the value the pointer replaced.
NoPointerChains ==
  LET T == Tokens IN
    pc = "encoded" =>
      /\ ScanOk
      /\ \A i \in DOMAIN T : IsPointer(T[i]) =>
           \E j \in DOMAIN T :
             /\ j > i
             /\ T[j].o = T[i].target
             /\ ~IsPointer(T[j])
             /\ ~T[j].sub
             /\ T[j].v = T[i].v

\* An output where a pointer's canonical token is a container that itself
\* holds a pointer.
NoPointerChainsSeen ==
  LET T == Tokens IN
    /\ pc = "encoded"
    /\ \E i, j \in DOMAIN T :
         /\ IsPointer(T[i]) /\ T[j].o = T[i].target
         /\ IsLiteralContainer(T[j])
         /\ \E k \in DOMAIN T : IsPointer(T[k]) /\ Inside(T[k], T[j])

Prefixed(t) == (IsLiteralContainer(t) /\ t.dl > 0) \/ t.tag = ","

\* A further child of the same parent follows token t.
HasNextSibling(t) ==
  /\ t.end < Len(buf)
  /\ CASE t.ctx.pk \in { "Top", "Decimal", "Delete" } -> FALSE
       [] t.ctx.pk = "Set" -> t.ctx.ci = 1
       [] OTHER -> buf[t.end + 1] \notin Closers

\* Token u is the next sibling of token t and starts at offset at.
SiblingAt(u, t, at) ==
  u.o = at /\ u.ctx.pk = t.ctx.pk /\ u.ctx.ci = t.ctx.ci + 1

PolicySkipPosition(c) ==
  \/ c.pk = "Array" /\ ~c.pix
  \/ c.pk = "Object" /\ ~c.pix /\ c.ci % 2 = 0
  \/ c.pk \in { "When", "Unless" } /\ c.ci >= 2
  \/ c.pk \in { "Alt", "All" } /\ c.ci >= 2

\* C7: an emitted container carries a length prefix if and only if it is in
\* a skip position (an element of a non-indexed array, a value of a
\* non-indexed object, a then/else branch, a second or later Alt/All
\* expression); elsewhere it has no prefix digits.  A dedup pointer is a
\* scalar token: it is its offset digits and the tag, whatever it replaces.
PrefixIffLiteralInSkipPosition ==
  LET T == Tokens IN
    pc = "encoded" =>
      /\ ScanOk
      /\ \A i \in DOMAIN T : ~T[i].sub =>
           /\ IsLiteralContainer(T[i]) =>
                IF PolicySkipPosition(T[i].ctx)
                THEN T[i].n = BodyLen(T[i])
                ELSE T[i].dl = 0
           /\ IsPointer(T[i]) => T[i].end = T[i].o + T[i].dl + 1

\* An output with a prefixed container in a skip position, a container
\* replaced by a pointer in a skip position, and a container with a body but
\* no prefix inside an indexed container.
PrefixIffLiteralInSkipPositionSeen ==
  LET T == Tokens IN
    /\ pc = "encoded"
    /\ \E i \in DOMAIN T :
         IsLiteralContainer(T[i]) /\ T[i].dl > 0 /\ PolicySkipPosition(T[i].ctx)
    /\ \E i \in DOMAIN T :
         /\ IsPointer(T[i]) /\ PolicySkipPosition(T[i].ctx)
         /\ IsContainer(T[i].v) /\ T[i].v.c # << >>
    /\ \E i \in DOMAIN T :
         IsLiteralContainer(T[i]) /\ T[i].ctx.pix /\ BodyLen(T[i]) > 0

\* The bytes of the digit alphabet and of the tag and delimiter set.
SafeBytes == DIGIT_SET \cup VALUE_TAGS \cup Closers \cup { IndexMarker }

\* Byte number i (1-based) lies in the body of raw-string token t.
InRawBody(i, t) == t.tag = "," /\ t.o + t.hdr < i /\ i <= t.end

\* C8 as stated: every byte of the output is in the alphabet or the tag
\* set.
AlphabetAndTagsOnly ==
  pc = "encoded" => \A i \in DOMAIN buf : buf[i] \in SafeBytes

\* C8: every byte of the output outside the bodies of raw strings is in the
\* alphabet or the tag set; the body of a raw string is the UTF-8 encoding
\* of its content, byte for byte.
AlphabetAndTagsOutsideRawBodies ==
  LET T == Tokens IN
    pc = "encoded" =>
      /\ ScanOk
      /\ \A i \in DOMAIN buf :
           buf[i] \in SafeBytes \/ \E r \in DOMAIN T : InRawBody(i, T[r])
      /\ \A r \in DOMAIN T : T[r].tag = "," =>
           SubSeq(buf, T[r].o + T[r].hdr + 1, T[r].end) = Utf8(T[r].v.s)

\* An output with an index table and a raw string whose body holds a quote.
AlphabetAndTagsOutsideRawBodiesSeen ==
  LET T == Tokens IN
    /\ pc = "encoded"
    /\ \E i \in DOMAIN T : T[i].ix.on
    /\ \E i \in DOMAIN buf :
         buf[i] = "\"" /\ \E r \in DOMAIN T : InRawBody(i, T[r])

\* C9 as stated: no digit run starts with the digit 0, the runs before :
\* and $ included.
NoLeadingZeroAnywhere ==
  LET T == Tokens IN
    pc = "encoded" =>
      /\ ScanOk
      /\ \A i \in DOMAIN T :
           /\ T[i].dl > 0 => buf[T[i].o + 1] # "0"
           /\ (T[i].ix.on /\ T[i].ix.cd # << >>) => T[i].ix.cd[1] # "0"

\* C9: no numeric digit run (integer, decimal power, opcode or reference
\* id, length prefix, pointer offset, index count) starts with the digit 0,
\* and the number zero is the empty run; the run before : or $ is the
\* string's content as it is.
MinimalDigits ==
  LET T == Tokens IN
    pc = "encoded" =>
      /\ ScanOk
      /\ \A i \in DOMAIN T :
           /\ (T[i].dl > 0 /\ T[i].tag \notin { ":", "$" }) =>
                buf[T[i].o + 1] # "0" /\ T[i].n > 0
           /\ T[i].tag \in { ":", "$" } =>
                SubSeq(buf, T[i].o + 1, T[i].o + T[i].dl) = T[i].v.s
           /\ T[i].ix.on => T[i].ix.cd # << >> /\ T[i].ix.cd[1] # "0"

\* An output with the integer zero, a run of two digits and a bare string
\* whose first character is 0.
MinimalDigitsSeen ==
  LET T == Tokens IN
    /\ pc = "encoded"
    /\ \E i \in DOMAIN T : T[i].tag = "+" /\ T[i].dl = 0
    /\ \E i \in DOMAIN T : T[i].tag \notin { ":", "$" } /\ T[i].dl >= 2
    /\ \E i \in DOMAIN T : T[i].tag = ":" /\ T[i].dl > 0 /\ buf[T[i].o + 1] = "0"

\* C10: for every indexed array and every element number e, the index
\* entry leads get to the offset a linear scan of the body reaches, and get
\* returns the element the full scan decodes.
IndexScanEquivalence ==
  LET T == Tokens IN
    /\ pc = "encoded" =>
         /\ ScanOk
         /\ \A i \in DOMAIN T : (T[i].tag = "[" /\ T[i].ix.on) =>
              /\ T[i].ix.count = Len(T[i].v.c)
              /\ \A e \in 0..(T[i].ix.count - 1) :
                   /\ GetStep(buf, T[i].o, IndexStep(e)) = NthItem(buf, T[i].ix.first, e)
                   /\ GetAt(buf, T[i].o, << IndexStep(e) >>).err = "OK"
                   /\ GetAt(buf, T[i].o, << IndexStep(e) >>).v = T[i].v.c[e + 1]
    /\ (pc = "got" /\ Len(path) = 1 /\ T[1].tag = "[" /\ T[1].ix.on) =>
         got.err = "OK" /\ got.v = T[1].v.c[path[1].i + 1]

\* get of the last element of an indexed array with two-digit entries, one
\* of whose elements is a pointer.
IndexScanEquivalenceSeen ==
  LET T == Tokens IN
    /\ pc = "got" /\ Len(path) = 1
    /\ T[1].tag = "[" /\ T[1].ix.on /\ T[1].ix.w = 2
    /\ path[1].i = T[1].ix.count - 1 /\ path[1].i > 0
    /\ got.v = T[1].v.c[path[1].i + 1]
    /\ \E k \in DOMAIN T : IsPointer(T[k]) /\ T[k].ctx.pk = "Array" /\ T[k].ctx.pix

\* C11: the index of every indexed object holds one entry per key, in
\* ascending order of the keys' bytes, and binary search finds for every key
\* of the object the value that a linear key/value scan of the body finds.
ObjectIndexScanEquivalence ==
  LET T == Tokens IN
    /\ pc = "encoded" =>
         /\ ScanOk
         /\ \A i \in DOMAIN T : (T[i].tag = "{" /\ T[i].ix.on) =>
              LET ix == T[i].ix
                  kids == T[i].v.c
                  keyAt(j) == KeyAt(buf, ix.first + IndexEntry(buf, ix, j))
              IN /\ ix.count = Len(kids) \div 2
                 /\ { ix.first + IndexEntry(buf, ix, j) : j \in 0..(ix.count - 1) }
                      = { NthItem(buf, ix.first, 2 * k) : k \in 0..(ix.count - 1) }
                 /\ \A j \in 0..(ix.count - 2) : BytesLess(keyAt(j), keyAt(j + 1))
                 /\ \A k \in 1..ix.count :
                      LET kb == KeyBytes(kids[2 * k - 1])
                          found == SearchKey(buf, ix, 0, ix.count - 1, kb)
                      IN /\ found = ScanKey(buf, ix.first, "}", kb)
                         /\ found >= 0
                         /\ Parse(buf, found, Top).v = kids[2 * k]
    /\ (pc = "got" /\ Len(path) = 1 /\ T[1].tag = "{" /\ T[1].ix.on) =>
         got.err = "OK" /\ got.v = FirstPair(T[1].v.c, 1, KeyBytes(path[1].k))

\* get of the first stored key of an indexed object of three pairs whose
\* index order differs from the storage order and whose key is a pointer.
ObjectIndexScanEquivalenceSeen ==
  LET T == Tokens IN
    /\ pc = "got" /\ Len(path) = 1 /\ path[1].key
    /\ T[1].tag = "{" /\ T[1].ix.on /\ T[1].ix.count = 3
    /\ IndexEntry(buf, T[1].ix, 0) > 0
    /\ IsPointer(T[2])
    /\ KeyBytes(path[1].k) = KeyBytes(T[2].v)
    /\ got.v = T[1].v.c[2]

\* 64^w: the number of offsets an entry of w digits can hold.
Span(w) == IF w = 0 THEN 1 ELSE IF w = 1 THEN 64 ELSE IF w = 2 THEN 4096 ELSE 262144

\* The least width in 1..3 whose entries can hold the offset m.
LeastWidth(m) == CHOOSE w \in 1..3 : m < Span(w) /\ (w = 1 \/ m >= Span(w - 1))

\* Offsets on both sides of each width's limit.
WidthProbes == { 0, 1, 63, 64, 65, 4095, 4096, 4097, 262143 }

\* The offsets the entries of an index hold.
EntryOffsets(ix) == { IndexEntry(buf, ix, j) : j \in 0..(ix.count - 1) }

\* The largest of a non-empty set of numbers.
Largest(S) == CHOOSE m \in S : \A x \in S : x <= m

TokenAt(o) == LET T == Tokens IN CHOOSE i \in DOMAIN T : T[i].o = o

\* C13: get(buf, path) on an encoder output, for a path that is valid in
\* decode(buf), succeeds and returns the subvalue that navigating
\* decode(buf) along path reaches.
GetAgreesWithDecode ==
  pc = "got" =>
    /\ decode(buf).err = "OK"
    /\ path \in PathsOf(decode(buf).v)
    /\ got.err = "OK"
    /\ got.v = Navigate(decode(buf).v, path)

\* A two-step get on an un-indexed container: the first step scans past a
\* child that carries no length prefix, up to its closer, and lands on a
\* dedup pointer; the second step is taken inside the pointer's target.
GetAgreesWithDecodeSeen ==
  LET T == Tokens IN
    /\ pc = "got" /\ Len(path) = 2 /\ ~path[1].key /\ path[1].i >= 1
    /\ IsLiteralContainer(T[1]) /\ ~T[1].ix.on
    /\ T[2].dl = 0 /\ IsLiteralContainer(T[2])
    /\ LET c == GetStep(buf, 0, path[1])
       IN c >= 0 /\ Resolve(buf, c) # c
    /\ got.err = "OK" /\ got.v # NoValue

\* A get that skips a child by its length prefix.
GetByPrefixSkipSeen ==
  LET T == Tokens IN
    /\ pc = "got" /\ Len(path) >= 1 /\ ~path[1].key /\ path[1].i >= 1
    /\ IsLiteralContainer(T[1]) /\ ~T[1].ix.on
    /\ T[2].dl > 0 /\ IsLiteralContainer(T[2])
    /\ got.err = "OK" /\ got.v # NoValue

\* A get whose first step goes through an index and whose second step scans
\* an un-indexed container token by token.
GetThroughIndexSeen ==
  LET T == Tokens IN
    /\ pc = "got" /\ Len(path) = 2 /\ T[1].ix.on
    /\ LET c == Resolve(buf, GetStep(buf, 0, path[1]))
       IN c >= 0 /\ ~T[TokenAt(c)].ix.on
    /\ got.err = "OK"

\* A get by key that scans the pairs of an un-indexed object past its first
\* pair.
GetByKeyScanSeen ==
  LET T == Tokens IN
    /\ pc = "got" /\ Len(path) >= 1 /\ path[1].key
    /\ T[1].tag = "{" /\ ~T[1].ix.on
    /\ KeyBytes(path[1].k) # KeyBytes(T[1].v.c[1])
    /\ got.err = "OK"

\* The tokens of the output, in serialization order, that stand for x.
Occurrences(x) ==
  LET T == Tokens IN { i \in DOMAIN T : ~T[i].sub /\ T[i].v = x }

\* C14: every dedup candidate is written literally exactly once, at the
\* last of its occurrences in the output; every earlier occurrence is a
\* pointer to that literal.  [1, 1] encodes as [^2+].
LiteralAtLastOccurrence ==
  LET T == Tokens IN
    pc = "encoded" =>
      /\ ScanOk
      /\ \A x \in Candidates(v, opt.dedupMin) :
           LET occ == Occurrences(x)
               lit == { i \in occ : ~IsPointer(T[i]) }
           IN /\ Cardinality(lit) = 1
              /\ \A i \in occ : \A l \in lit :
                   /\ i <= l /\ T[i].o <= T[l].o
                   /\ i < l => IsPointer(T[i]) /\ T[i].target = T[l].o
      /\ (v = Container("Array", << Integer(1), Integer(1) >>) /\ opt.dedupMin = 2 /\ opt.indexMin = 0)
           => buf = << "[", "^", "2", "+", "]" >>

\* An output in which a candidate stands three times: two pointers, one of
\* them inside another container than the literal, then the literal.
LiteralAtLastOccurrenceSeen ==
  LET T == Tokens IN
    /\ pc = "encoded"
    /\ \E x \in Candidates(v, opt.dedupMin) :
         LET occ == Occurrences(x) IN
           /\ Cardinality(occ) >= 3
           /\ \E i, l \in occ : i < l /\ IsPointer(T[i]) /\ ~IsPointer(T[l])
                                /\ T[i].ctx.pk # T[l].ctx.pk

\* The zigzag number a value is written with: an integer's own, a decimal's
\* power.
Zigzagged(x) == IF x.t = "Decimal" THEN x.p ELSE x.n

\* C15: unzz(zz(n)) = n for every integer n and zz(unzz(z)) = z for every
\* z >= 0; integers and decimal powers are written with the same mapping,
\* non-negative n as 2n and negative n as -2n - 1, so that 0 is `+`, -1 is
\* `1+` and 1 is `2+`.
ZigzagBijection ==
  LET n == Zigzagged(v)
      z == n + MaxInt
      T == Tokens
  IN /\ unzz(zz(n)) = n
     /\ zz(n) >= 0
     /\ zz(n) = IF n >= 0 THEN 2 * n ELSE -2 * n - 1
     /\ zz(unzz(z)) = z /\ zz(unzz(z + MaxInt + 1)) = z + MaxInt + 1
     /\ unzz(z) = IF z % 2 = 0 THEN z \div 2 ELSE -((z + 1) \div 2)
     /\ pc = "encoded" =>
          /\ ScanOk
          /\ T[1].tag = (IF v.t = "Decimal" THEN "*" ELSE "+")
          /\ T[1].n = zz(n)
          /\ v = Integer(0) => buf = << "+" >>
          /\ v = Integer(-1) => buf = << "1", "+" >>
          /\ v = Integer(1) => buf = << "2", "+" >>
          /\ v = Integer(42) => buf = << "1", "k", "+" >>
          /\ v = Integer(-42) => buf = << "1", "j", "+" >>
          /\ v = Decimal(0, 1) => buf = << "*", "2", "+" >>
          /\ v = Decimal(-1, 1) => buf = << "1", "*", "2", "+" >>
          /\ v = Decimal(1, 1) => buf = << "2", "*", "2", "+" >>
          /\ v = Decimal(-6, -1) => buf = << "b", "*", "1", "+" >>
     /\ pc = "decoded" => res.err = "OK" /\ res.v = v

\* A negative number whose zigzag takes two digits was encoded and decoded
\* back.
ZigzagBijectionSeen ==
  /\ pc = "decoded" /\ v.t = "Integer" /\ v.n < 0
  /\ zz(v.n) >= 64 /\ zz(v.n) % 2 = 1
  /\ Len(buf) = 3 /\ res.v = v

\* digitValue as the source computes it, from the character's code.
CharCodeDigit(c) ==
  LET code == ByteCode(c)
  IN IF code >= 48 /\ code <= 57 THEN code - 48
     ELSE IF code >= 97 /\ code <= 122 THEN code - 97 + 10
     ELSE IF code >= 65 /\ code <= 90 THEN code - 65 + 36
     ELSE IF code = 45 THEN 62
     ELSE IF code = 95 THEN 63
     ELSE -1

\* The digits in front of the tag of a one-token buffer.
DigitsOf(b) == SubSeq(b, 1, Len(b) - 1)

PointerAt(p) == DigitsEnd(buf, p) < Len(buf) /\ buf[DigitsEnd(buf, p) + 1] = "^"

\* The offsets of the buffer at which a pointer token can start: a reader
\* that arrives there, by scan or by index entry, reads a pointer.
PointerStarts == { p \in 0..(Len(buf) - 1) : PointerAt(p) }

\* The offset the pointer token at p carries, and the offset it resolves to.
OffsetOf(p) == decode_digits(SubSeq(buf, p + 1, DigitsEnd(buf, p)))

TargetOf(p) == DigitsEnd(buf, p) + 1 + OffsetOf(p)

\* The encoder's output as it was handed over, neither cut nor overwritten.
Intact == buf = encode(v, opt)

\* C17 as stated: a pointer whose offset is 0 is rejected as not forward.
ZeroOffsetRejected ==
  (pc = "decoded" /\ \E p \in PointerStarts : OffsetOf(p) = 0) => res.err # "OK"

\* C17: decoding a pointer token fails, with no value, with PointerChain
\* when its target is itself a pointer token and with NonForwardPointer when
\* its offset resolves to or past the end of the buffer; the offset is an
\* unsigned digit run, never negative, and an offset of 0 is the token right
\* after the pointer, decoded like any other target.  decode and get
\* report these errors for such a pointer only.
PointerDecodeErrors ==
  /\ pc # "start" =>
       \A p \in PointerStarts :
         LET r == Parse(buf, p, Top)
             s == ResolveAt(buf, p)
         IN /\ OffsetOf(p) >= 0
            /\ TargetOf(p) >= Len(buf) =>
                 /\ r.err = "NonForwardPointer" /\ r.v = NoValue /\ r.at = p
                 /\ s.err = "NonForwardPointer" /\ s.at = p
            /\ (TargetOf(p) < Len(buf) /\ PointerAt(TargetOf(p))) =>
                 /\ r.err = "PointerChain" /\ r.v = NoValue /\ r.at = p
                 /\ s.err = "PointerChain" /\ s.at = p
            /\ (TargetOf(p) < Len(buf) /\ ~PointerAt(TargetOf(p))) =>
                 /\ r.err = Parse(buf, TargetOf(p), Top).err
                 /\ r.v = Parse(buf, TargetOf(p), Top).v
                 /\ s.err = "OK" /\ s.pos = TargetOf(p)
  /\ \A o \in { res, got } :
       /\ o.err = "PointerChain" =>
            /\ o.v = NoValue
            /\ o.at \in PointerStarts
            /\ TargetOf(o.at) < Len(buf) /\ PointerAt(TargetOf(o.at))
       /\ o.err = "NonForwardPointer" =>
            /\ o.v = NoValue
            /\ o.at \in PointerStarts
            /\ TargetOf(o.at) >= Len(buf)

\* decode failed on a pointer inside a container whose target is a pointer,
\* in a buffer that also holds a pointer of offset 0 to a sound target.
PointerDecodeErrorsSeen ==
  /\ pc = "decoded" /\ res.err = "PointerChain" /\ res.at > 0
  /\ \E p \in PointerStarts :
       OffsetOf(p) = 0 /\ Parse(buf, p, Top).err = "OK"

\* decode failed on a pointer that resolves past the end of the buffer.
PointerPastEndSeen ==
  /\ pc = "decoded" /\ res.err = "NonForwardPointer"
  /\ TargetOf(res.at) > Len(buf)

\* get failed on a pointer it had to follow.
PointerErrorInGetSeen ==
  /\ pc = "got" /\ Len(path) >= 1
  /\ got.err \in { "PointerChain", "NonForwardPointer" }

\* x is a container with a child count its kind does not allow.
WrongCount(x) ==
  \/ x.t = "Set" /\ Len(x.c) # 2
  \/ x.t = "Delete" /\ Len(x.c) # 1
  \/ x.t \in { "When", "Unless" } /\ (Len(x.c) < 2 \/ Len(x.c) > 3)
  \/ x.t \in { "Alt", "All" } /\ Len(x.c) = 0

\* Some container of the tree x has a wrong child count.
AnyWrongCount(x) ==
  LET ns == Nodes(x) IN \E i \in DOMAIN ns : WrongCount(ns[i])

ArityOfWhenSeen ==
  /\ pc = "decoded" /\ Intact /\ res.err = "ArityMismatch"
  /\ v.t = "When" /\ Len(v.c) = 4

\* get reached a container of the wrong count through a path and failed.
ArityInGetSeen ==
  /\ pc = "got" /\ Intact /\ Len(path) >= 1 /\ got.err = "ArityMismatch"

\* The decode errors.
DecodeErrors ==
  { "InvalidDigit", "UnknownTag", "TruncatedBuffer", "NonForwardPointer",
    "PointerChain", "ArityMismatch", "UnterminatedContainer" }

RECURSIVE FirstFault(_, _, _)
\* The result of the first child, from offset q up to closer, that fails to
\* decode; an OK result when every child up to the closer decodes.
FirstFault(b, q, closer) ==
  IF q >= Len(b) THEN Fail("UnterminatedContainer", q)
  ELSE IF b[q + 1] = closer THEN Done(NoValue, q, << >>)
  ELSE LET r == Parse(b, q, Top)
       IN IF r.err # "OK" THEN r ELSE FirstFault(b, r.next, closer)

\* The offsets at which an array or call without index opens.
PlainOpeners ==
  { p \in 0..(Len(buf) - 1) :
      \/ buf[p + 1] = "("
      \/ buf[p + 1] = "[" /\ ~ReadIndex(buf, p + 1).on }

\* C19: a call of decode or get that detects a decode error returns that
\* error, the byte offset where it was detected and no value; the error of
\* a child at any depth is the error of every container around it; the
\* same call on the same buffer gives the same outcome.
ErrorsAbortTheCall ==
  /\ \A o \in { res, got } :
       /\ o.err \in DecodeErrors \cup { "OK", "NoSuchPath", "none" }
       /\ o.err \in DecodeErrors => o.v = NoValue /\ o.at \in 0..Len(buf)
       /\ o.err = "OK" => o.v # NoValue
  /\ pc \in { "encoded", "decoded" } =>
       \A p \in PlainOpeners :
         LET inner == FirstFault(buf, p + 1, IF buf[p + 1] = "(" THEN ")" ELSE "]")
             outer == Parse(buf, p, Top)
         IN inner.err # "OK" =>
              outer.err = inner.err /\ outer.at = inner.at /\ outer.v = NoValue
  /\ pc = "decoded" =>
       /\ res = Outcome(decode(buf))
       /\ Parse(buf, 0, Top).err \in DecodeErrors =>
            res.err = Parse(buf, 0, Top).err /\ res.at = Parse(buf, 0, Top).at
  /\ pc = "got" => got = Outcome(get(buf, path))

\* decode failed on an error detected two containers deep, after a child
\* that decoded.
ErrorsAbortTheCallSeen ==
  /\ pc = "decoded" /\ res.err \in DecodeErrors /\ res.v = NoValue
  /\ \E p, q \in PlainOpeners :
       /\ p < q /\ q < res.at
       /\ Parse(buf, q, Top).err = res.err /\ Parse(buf, q, Top).at = res.at
       /\ Parse(buf, q + 1, Top).err = "OK"

\* get failed on a decode error at the end of a path of two steps.
ErrorInGetSeen ==
  /\ pc = "got" /\ Len(path) = 2 /\ got.err \in DecodeErrors /\ got.at > 0

\* Every decode error is reported by some call.
InvalidDigitSeen == pc = "decoded" /\ res.err = "InvalidDigit"

UnknownTagSeen == pc = "decoded" /\ res.err = "UnknownTag"

TruncatedBufferSeen == pc = "decoded" /\ res.err = "TruncatedBuffer"

UnterminatedContainerSeen == pc = "decoded" /\ res.err = "UnterminatedContainer"

RECURSIVE AloneStates(_, _)
\* The locals a tokenize call that runs alone has between the passes of its
\* main loop.
AloneStates(text, st) ==
  IF st.pos < Len(text) THEN { st } \cup AloneStates(text, mainLoop(text, st))
  ELSE { st }

\* Every call has the locals, and every finished call the result, of the
\* same call run alone on the buffer.
ResultsAsAlone ==
  \A c \in DOMAIN calls :
    /\ calls[c].kind = "tokenize" =>
         /\ calls[c].st \in AloneStates(buf, NewLocals)
         /\ calls[c].done => calls[c].st.tokens = tokenize(buf)
    /\ (calls[c].kind = "decode" /\ calls[c].done) =>
         calls[c].out = Outcome(decode(buf))
    /\ (calls[c].kind = "get" /\ calls[c].done) =>
         calls[c].out = Outcome(get(buf, calls[c].path))

DecodeBesideTokenizeSeen ==
  /\ pc = "shared"
  /\ \E c, d \in DOMAIN calls :
       /\ calls[c].kind = "decode" /\ calls[c].done /\ calls[c].out.err = "OK"
       /\ calls[d].kind = "tokenize" /\ ~calls[d].done /\ calls[d].st.pos > 0

\* A get call returned a value.
GetOnSharedSeen ==
  /\ pc = "shared"
  /\ \E c \in DOMAIN calls :
       calls[c].kind = "get" /\ calls[c].done /\ calls[c].out.err = "OK"

(***************************************************************************)
(* Properties of the compiler                                              *)
(***************************************************************************)
\* The bytecode of a call: the $-prefixed operator name and the compiled
\* arguments, as the test of (add 1 2) expects it.
CallBytecode(action, args) ==
  JArray(<< JArray(<< JString(<< "$" >> \o action) >> \o args) >>)

\* C21: for a program of one call expression, toJSON returns without
\* throwing and yields the bytecode array of the $-prefixed operator name
\* followed by the compiled arguments; (add 1 2) gives [["$add", 1, 2]].
CallCompiles ==
  (pc = "compiled" /\ program.kids[1].kids # << >>
     /\ program.kids[1].kids[1].rule = "Expr_call"
     /\ Len(program.kids[1].kids) = 1)
  => /\ json.threw = ""
     /\ program = ProgramOf(<< Call(<< "a", "d", "d" >>,
                    << DecimalLiteral(<< "1" >>), DecimalLiteral(<< "2" >>) >>) >>)
          => json.v = CallBytecode(<< "a", "d", "d" >>,
                        << JNumber(FALSE, << 1 >>), JNumber(FALSE, << 1, 0 >>) >>)

\* The digits of a literal of the program, when the program is one
\* hexadecimal or binary literal.
IsRadixLiteral ==
  /\ Len(program.kids[1].kids) = 1
  /\ program.kids[1].kids[1].rule = "Expr_atom"
  /\ program.kids[1].kids[1].kids[1].rule \in { "hexNumber", "binaryNumber" }

LiteralNode == program.kids[1].kids[1].kids[1]

\* The magnitude of the literal's digits in its base.
Magnitude ==
  Significant(RadixBits(LiteralNode.kids[3].src,
                        IF LiteralNode.rule = "hexNumber" THEN 4 ELSE 1))

\* C22: for every hexadecimal or binary literal with an optional leading -,
\* toJSON returns the magnitude of the digits in that base, negated exactly
\* when the literal starts with -.
RadixLiteralValue ==
  (pc = "compiled" /\ IsRadixLiteral)
  => /\ json.threw = ""
     /\ json.v.t = "number"
     /\ json.v.mag = Magnitude
     /\ json.v.neg = (LiteralNode.src[1] = "-")

\* C22, within the precision of a Number: for every hexadecimal or binary
\* literal whose magnitude has at most DoubleBits binary digits, toJSON
\* returns the magnitude of the digits in that base, negated exactly when
\* the literal starts with -.
RadixLiteralExact ==
  (pc = "compiled" /\ IsRadixLiteral /\ Len(Magnitude) <= DoubleBits)
  => /\ json.threw = ""
     /\ json.v.t = "number"
     /\ json.v.mag = Magnitude
     /\ json.v.neg = (LiteralNode.src[1] = "-")

\* -0x2A has been compiled to -42.
RadixLiteralExactSeen ==
  /\ pc = "compiled"
  /\ program = ProgramOf(<< HexLiteral(<< "-" >>, << "2", "A" >>) >>)
  /\ json = Returned(JNumber(TRUE, << 1, 0, 1, 0, 1, 0 >>))

\* A literal of DoubleBits + 1 binary digits has been compiled to another
\* integer than the one it writes.
RadixLiteralRoundedSeen ==
  /\ pc = "compiled"
  /\ IsRadixLiteral
  /\ Len(Magnitude) = DoubleBits + 1
  /\ json.threw = ""
  /\ json.v.mag # Magnitude

(***************************************************************************)
(* Properties of the tokenizer and of the reader on one document           *)
(***************************************************************************)
\* The UTF-8 bytes of the document.
Bytes == Utf8(buf)

\* The offsets in b at which a value with the tag * begins.
DecimalsAt(b) ==
  { p \in 0..(Len(b) - 1) :
      /\ p = 0 \/ b[p] \notin DIGIT_SET
      /\ DigitsEnd(b, p) < Len(b)
      /\ b[DigitsEnd(b, p) + 1] = "*" }

\* The events of kind ev that the tokenize call has recorded.
Events(ev) == { tk.log[i] : i \in { j \in DOMAIN tk.log : tk.log[j].ev = ev } }

\* The decimal at offset p of b, read with sig the result of decoding the
\* value after its tag and dec the result of decoding the decimal.
DecimalRead(b, p, sig, dec) ==
  /\ (sig.err = "OK" /\ sig.v.t = "Integer") =>
       /\ dec.err = "OK"
       /\ dec.v = Decimal(unzz(decodePrefix(b, p, DigitsEnd(b, p))), sig.v.n)
       /\ dec.next = sig.next
  /\ (sig.err = "OK" /\ sig.v.t # "Integer") =>
       dec.err \in DecodeErrors /\ dec.v = NoValue
  /\ sig.err # "OK" => dec.err \in DecodeErrors /\ dec.v = NoValue

\* C23: a * token consumes exactly the one value that follows it as its
\* significand; the result is Decimal{power = unzz(prefix), significand}
\* when that value decodes to an Integer and a decode error otherwise; the
\* cursor after the decimal is the cursor after the significand.  The
\* tokenizer passes the same characters: where the decimal decodes, its
\* pos after the decimal is the reader's cursor.
DecimalConsumesSignificand ==
  /\ \A p \in DecimalsAt(Bytes) :
       DecimalRead(Bytes, p, Parse(Bytes, DigitsEnd(Bytes, p) + 1, Top),
                   Parse(Bytes, p, Top))
  /\ (pc = "read" /\ buf = << "1", "*", "2", "+" >>) =>
       res.err = "OK" /\ res.v = Decimal(-1, 1)
  /\ Bytes = buf =>
       \A e \in Events("decimal") :
         Parse(buf, e.a, Top).err = "OK" => e.b = Parse(buf, e.a, Top).next

\* A document that is one decimal has been tokenized to its end and decoded.
DecimalConsumesSignificandSeen ==
  /\ pc = "read" /\ res.err = "OK" /\ res.v.t = "Decimal"
  /\ \E e \in Events("decimal") : e.a = 0 /\ e.b = Len(buf) /\ e.b > 2

\* A decimal whose tag is followed by a value that is no Integer has been
\* decoded to an error.
DecimalOfNoIntegerSeen ==
  /\ pc = "read" /\ res.err \in DecodeErrors /\ res.v = NoValue
  /\ 0 \in DecimalsAt(Bytes)
  /\ Parse(Bytes, DigitsEnd(Bytes, 0) + 1, Top).err = "OK"
  /\ Parse(Bytes, DigitsEnd(Bytes, 0) + 1, Top).v.t = "BareString"

\* The offsets in b at which a string container begins.
RawsAt(b) ==
  { p \in 0..(Len(b) - 1) :
      /\ p = 0 \/ b[p] \notin DIGIT_SET
      /\ DigitsEnd(b, p) < Len(b)
      /\ b[DigitsEnd(b, p) + 1] = "," }

\* The number of UTF-8 bytes of the characters of the document from pos =
\* from up to pos = to.
BytesBetween(from, to) == Len(Utf8(SubSeq(buf, from + 1, to)))

\* The reader resumes n bytes after the tag of every string container that
\* lies within the buffer.
RawSkippedByReader ==
  \A p \in RawsAt(Bytes) :
    Parse(Bytes, p, Top).err = "OK" =>
      Parse(Bytes, p, Top).next
        = DigitsEnd(Bytes, p) + 1 + decodePrefix(Bytes, p, DigitsEnd(Bytes, p))

\* C24: after a <n>, token the reader resumes exactly n UTF-8 bytes after
\* the tag, whatever those bytes are: digits, tags, closers, #, comment
\* markers or multi-byte characters.  For the tokenizer: whenever some
\* position of the document lies n bytes after the tag, that position is
\* pos after the string container.
RawSkippedByLength ==
  /\ RawSkippedByReader
  /\ \A e \in Events("raw") :
       \A k \in e.a..Len(buf) : BytesBetween(e.a, k) = e.c => e.b = k

\* The tokenizer has passed a string container whose n characters are more
\* than n bytes.
RawCountedInCharactersSeen ==
  \E e \in Events("raw") : e.c > 0 /\ e.b = e.a + e.c /\ BytesBetween(e.a, e.b) > e.c

\* The tokenizer has passed a string container of n bytes that holds a
\* closer, inside an array that it then closed.
RawWithCloserSeen ==
  /\ pc = "returned"
  /\ \E e \in Events("raw") :
       /\ e.c = 3 /\ BytesBetween(e.a, e.b) = 3 /\ buf[e.a + 2] = "]"
       /\ \E q \in Events("pass") : q.c = 1 /\ q.b = e.b /\ buf[q.b + 1] = "]"

\* decode_digits of the format: the value of a digit run, or InvalidDigit
\* when a character of the run is outside the alphabet.
checked_digits(s) ==
  IF \E i \in DOMAIN s : s[i] \notin DIGIT_SET
  THEN [ err |-> "InvalidDigit", v |-> -1 ]
  ELSE [ err |-> "OK", v |-> decodePrefix(s, 0, Len(s)) ]

\* Longest run taken from a document.
RunLen == 3

\* The runs of up to RunLen characters of the document.
RunsOf(b) ==
  UNION { { SubSeq(b, i, j) : j \in (i - 1)..(IF i + RunLen - 1 < Len(b)
                                              THEN i + RunLen - 1 ELSE Len(b)) } :
          i \in 1..(Len(b) + 1) }

\* The value of a run of alphabet characters: the sum of its digits' values
\* by position.
RECURSIVE PositionalValue(_)
PositionalValue(s) ==
  IF s = << >> THEN 0
  ELSE 64 * PositionalValue(SubSeq(s, 1, Len(s) - 1)) + DigitTable[s[Len(s)]]

\* The offsets in b of the [ and { without prefix whose index header has a
\* width character outside the alphabet.
BadWidthsAt(b) ==
  { p \in 0..(Len(b) - 1) :
      /\ p = 0 \/ b[p] \notin DIGIT_SET
      /\ b[p + 1] \in { "[", "{" }
      /\ DigitsEnd(b, p + 1) + 1 < Len(b)
      /\ b[DigitsEnd(b, p + 1) + 1] = IndexMarker
      /\ b[DigitsEnd(b, p + 1) + 2] \notin DIGIT_SET }

PrefixAfterUnknownSeen ==
  \E e \in Events("decodePrefix") :
    /\ e.b > e.a /\ buf[e.b + 1] = ","
    /\ e.a > 0 /\ buf[e.a] \notin DIGIT_SET \cup VALUE_TAGS \cup Closers

\* C26: a bare-string token has the type objectKey if and only if it is
\* itself a key, child number 1, 3, 5, ... of an object body; a bare string
\* in a value position, inside an array or call, as an operand or at top
\* level has the type string; the mode in force before a child is parsed is
\* restored after it.
ObjectKeysTyped ==
  /\ \A e \in Events("bare") :
       tk.tokens[e.a].type
         = (IF e.b = 1 THEN TypeNumber("objectKey") ELSE TypeNumber("string"))
  /\ tk.objectKeyMode = FALSE

\* A bare string inside an array that stands in key position has the type
\* objectKey.
KeyModeInsideArraySeen ==
  /\ pc = "returned"
  /\ Len(buf) > 2 /\ buf[1] = "{" /\ buf[2] = "["
  /\ \E e \in Events("bare") :
       /\ e.b = 0 /\ tk.tokens[e.a].char = 2
       /\ tk.tokens[e.a].type = TypeNumber("objectKey")

\* Keys and values of an object have been typed objectKey and string.
KeysAndValuesSeen ==
  /\ pc = "returned"
  /\ \E e, f \in Events("bare") :
       /\ e.b = 1 /\ tk.tokens[e.a].type = TypeNumber("objectKey")
       /\ f.b = 0 /\ tk.tokens[f.a].type = TypeNumber("string") /\ f.a > e.a

\* The iterations of the main loop and of the container loops so far.
Iterations == Events("top") \cup Events("pass")

\* Every iteration has increased pos, whether it went on or left its loop.
EveryIterationAdvances ==
  /\ \A e \in Iterations : e.b > e.a /\ e.b <= Len(buf)
  /\ tk.pos <= Len(buf)

\* Every iteration of the main loop has increased pos, and so has every
\* iteration of a container loop but the one that leaves the loop at the
\* closer it stands on; pos has not gone past the end of the text.
IterationsAdvance ==
  /\ \A e \in Events("top") : e.b > e.a
  /\ \A e \in Events("pass") :
       /\ e.b >= e.a
       /\ e.c = 0 => e.b > e.a
       /\ e.b = e.a => e.b < Len(buf) /\ buf[e.b + 1] \in Closers
  /\ \A e \in Iterations : e.b <= Len(buf)
  /\ tk.pos <= Len(buf)

\* C27, for the iterations that go on: tokenize terminates on every
\* document; every iteration of the main loop, and every iteration of a
\* container loop that does not leave the loop at its closer, increases pos
\* by at least 1, and pos never exceeds the length of the text.
TokenizeTerminates ==
  /\ (pc = "tokenizing") ~> (pc = "returned")
  /\ [](IterationsAdvance)
  /\ [][pc = "tokenizing" /\ tk' # tk => tk'.pos > tk.pos]_vars

\* tokenize has returned from a document on which it skipped an unknown
\* character and left a container open at the end of the text.
TokenizeTerminatesSeen ==
  /\ pc = "returned"
  /\ \E t \in Events("top") :
       t.b = t.a + 1 /\ buf[t.a + 1] \notin VALUE_TAGS \cup DIGIT_SET
  /\ \E q \in Events("pass") : q.c = 0 /\ q.b = Len(buf)

\* An iteration of a container loop has left the loop at the closer without
\* moving pos.
IterationAtCloserSeen ==
  \E q \in Events("pass") : q.c = 1 /\ q.b = q.a

\* The newline characters in text[0..pos), as 1-based positions.
NewlinesBefore(text, pos) == { i \in 1..pos : text[i] = "\n" }

\* The number of characters between the last newline in text[0..pos) and
\* pos; pos itself when there is none.
SinceNewline(text, pos) ==
  IF NewlinesBefore(text, pos) = { } THEN pos
  ELSE pos - (CHOOSE i \in NewlinesBefore(text, pos) :
                \A j \in NewlinesBefore(text, pos) : j <= i)

\* line and col are those of pos.
Consistent(text, st) ==
  /\ st.line = Cardinality(NewlinesBefore(text, st.pos))
  /\ st.col = SinceNewline(text, st.pos)

\* The locals with a consistent cursor at pos = p, toks emitted so far.
LocalsAt(text, p, toks) ==
  [ NewLocals EXCEPT !.pos = p, !.line = Cardinality(NewlinesBefore(text, p)),
                     !.col = SinceNewline(text, p), !.tokens = toks ]

\* The characters at pos = p are <digits>#.
IndexAt(text, p) ==
  /\ DigitsEnd(text, p) < Len(text)
  /\ text[DigitsEnd(text, p) + 1] = IndexMarker

\* C28: line is the number of newlines in text[0..pos) and col the number
\* of characters since the last of them; every advance keeps this, and so
\* does tryParseIndex, which, where the characters are not <digits>#,
\* restores pos, line and col and has emitted no token.
CursorConsistent ==
  /\ Consistent(buf, tk)
  /\ \A p \in 0..(Len(buf) - 1) :
       /\ Consistent(buf, advance(buf, LocalsAt(buf, p, << >>)))
       /\ advance(buf, LocalsAt(buf, p, << >>)).pos = p + 1
  /\ \A p \in 0..Len(buf) :
       /\ Consistent(buf, tryParseIndex(buf, LocalsAt(buf, p, tk.tokens)))
       /\ ~IndexAt(buf, p) =>
            tryParseIndex(buf, LocalsAt(buf, p, tk.tokens)) = LocalsAt(buf, p, tk.tokens)

\* tokenize has returned from a document in which digits that are no index
\* header follow an opener on a later line.
CursorConsistentSeen ==
  /\ pc = "returned"
  /\ tk.line > 0
  /\ \E p \in 2..(Len(buf) - 1) :
       /\ buf[p - 1] \in { "[", "{" } /\ buf[p] = "\n"
       /\ DigitsEnd(buf, p) > p /\ ~IndexAt(buf, p)
       /\ \E e \in Events("pass") : e.a = p /\ e.b > DigitsEnd(buf, p)

\* pos of the first character of line l of the text.
LineStart(text, l) ==
  IF l = 0 THEN 0
  ELSE CHOOSE i \in 1..Len(text) :
         text[i] = "\n" /\ Cardinality(NewlinesBefore(text, i)) = l

\* pos of the first character of token t.
StartOf(text, t) == LineStart(text, t.line) + t.char

\* Token t comes before token u in (line, char) order.
Before(t, u) == t.line < u.line \/ (t.line = u.line /\ t.char < u.char)

\* C29: the tokens all have length > 0, are in strictly increasing (line,
\* char) order and do not overlap: each starts at or after the end of the
\* one before, so no character is covered by two tokens.
TokensOrdered ==
  /\ \A i \in DOMAIN tk.tokens :
       /\ tk.tokens[i].length > 0
       /\ tk.tokens[i].line <= Cardinality(NewlinesBefore(buf, Len(buf)))
       /\ StartOf(buf, tk.tokens[i]) + tk.tokens[i].length <= Len(buf)
  /\ \A i \in 1..(Len(tk.tokens) - 1) :
       /\ Before(tk.tokens[i], tk.tokens[i + 1])
       /\ tk.tokens[i].line = tk.tokens[i + 1].line =>
            tk.tokens[i].char + tk.tokens[i].length <= tk.tokens[i + 1].char
       /\ StartOf(buf, tk.tokens[i]) + tk.tokens[i].length
            <= StartOf(buf, tk.tokens[i + 1])

\* tokenize has returned tokens of several lines, two of them touching,
\* from a document with a string container that has an empty line.
TokensOrderedSeen ==
  /\ pc = "returned"
  /\ Len(tk.tokens) >= 4
  /\ \E i \in 1..(Len(tk.tokens) - 1) :
       /\ tk.tokens[i].line = tk.tokens[i + 1].line
       /\ tk.tokens[i].char + tk.tokens[i].length = tk.tokens[i + 1].char
  /\ \E i \in 1..(Len(tk.tokens) - 1) : tk.tokens[i].line + 2 = tk.tokens[i + 1].line
  /\ \E e \in Events("raw") : e.c > 0

\* The characters of the text that token t covers, as 1-based positions.
Covered(text, t) == (StartOf(text, t) + 1)..(StartOf(text, t) + t.length)

\* C30: each token covers characters of one line only: no newline lies
\* within [char, char + length) of the token's line, for string content,
\* for index data after count#width and for annotation runs alike.
TokensSingleLine ==
  \A i \in DOMAIN tk.tokens :
    \A j \in Covered(buf, tk.tokens[i]) : j <= Len(buf) => buf[j] # "\n"

\* The same for every token but those of index data.
OtherTokensSingleLine ==
  \A i \in DOMAIN tk.tokens :
    tk.tokens[i].type # TypeNumber("indexData") =>
      \A j \in Covered(buf, tk.tokens[i]) : j <= Len(buf) /\ buf[j] # "\n"

\* An index data token covers a newline.
IndexDataOverLinesSeen ==
  \E i \in DOMAIN tk.tokens :
    /\ tk.tokens[i].type = TypeNumber("indexData")
    /\ \E j \in Covered(buf, tk.tokens[i]) : buf[j] = "\n"

\* The content of a string container of several lines has been split into
\* one token per line.
StringSplitByLineSeen ==
  /\ pc = "returned"
  /\ \E e \in Events("raw") : \E j \in (e.a + 1)..e.b : buf[j] = "\n"
  /\ \E i \in 1..(Len(tk.tokens) - 1) :
       /\ tk.tokens[i].type = TypeNumber("string")
       /\ tk.tokens[i + 1].type = TypeNumber("string")
       /\ tk.tokens[i].line < tk.tokens[i + 1].line

====
